---- MODULE Spec2Model ----
(***************************************************************************)
(* Model of pbbes (PATE Bias Board Evaluation Software): the serial        *)
(* command/response engine (Device.py), the board emulator                 *)
(* (pbb-emulator.py), the measurement table and the PWM widgets            *)
(* (Widget.py), the key decoder and the key consumer management            *)
(* (KeyboardInput.py), the event scheduler (IntervalScheduler.py) and the  *)
(* main loop (main.py).                                                    *)
(*                                                                         *)
(* Text and bytes are sequences of one-character strings; the byte "xFF"   *)
(* stands for a byte that is not valid UTF-8.                              *)
(***************************************************************************)
EXTENDS Integers, Sequences, FiniteSets, TLC

\* ------------------------------------------------------------------ bounds

\* Number of transactions in one behaviour of the engine
MaxOps == 2

\* Number of Device instances of the two-instance specification
MaxDevices == 2

\* ------------------------------------------------------- python primitives

MinOf(a, b) == IF a < b THEN a ELSE b

\* s[:n]
Take(s, n) == SubSeq(s, 1, MinOf(n, Len(s)))

\* s[n:]
Drop(s, n) == SubSeq(s, n + 1, Len(s))

\* s[a:b] for 0 <= a <= b
Slice(s, a, b) == SubSeq(s, a + 1, MinOf(b, Len(s)))

DigitChars == <<"0", "1", "2", "3", "4", "5", "6", "7", "8", "9">>

IsDigit(ch) == \E i \in 1..10 : DigitChars[i] = ch

DigitVal(ch) == (CHOOSE i \in 1..10 : DigitChars[i] = ch) - 1

Whitespace == {" ", "\n", "\t", "\r"}

\* str.strip()
PyStrip(s) ==
    LET idx == {i \in 1..Len(s) : s[i] \notin Whitespace}
    IN  IF idx = {} THEN <<>>
        ELSE SubSeq(s, CHOOSE i \in idx : \A j \in idx : i <= j,
                       CHOOSE i \in idx : \A j \in idx : i >= j)

RECURSIVE DigitsValue(_)
DigitsValue(ds) ==
    IF ds = <<>> THEN 0
    ELSE DigitsValue(SubSeq(ds, 1, Len(ds) - 1)) * 10 + DigitVal(ds[Len(ds)])

\* int(s): surrounding whitespace is ignored, one optional sign, then decimal
\* digits; anything else raises ValueError (ok = FALSE).
PyInt(s) ==
    LET Digits(neg, body) ==
            IF body # <<>> /\ \A i \in 1..Len(body) : IsDigit(body[i])
            THEN [ok |-> TRUE,
                  val |-> IF neg THEN 0 - DigitsValue(body) ELSE DigitsValue(body)]
            ELSE [ok |-> FALSE, val |-> 0]
        Signed(t) ==
            Digits(t # <<>> /\ t[1] = "-",
                   IF t # <<>> /\ t[1] \in {"-", "+"} THEN Drop(t, 1) ELSE t)
    IN  Signed(PyStrip(s))

\* str.split(): the maximal runs of non-whitespace characters, in order
RECURSIVE PySplit(_)
PySplit(s) ==
    IF s = <<>> THEN <<>>
    ELSE IF s[1] \in Whitespace THEN PySplit(Drop(s, 1))
    ELSE LET ws  == {i \in 1..Len(s) : s[i] \in Whitespace}
             cut == IF ws = {} THEN Len(s) + 1
                    ELSE CHOOSE i \in ws : \A j \in ws : i <= j
         IN  <<SubSeq(s, 1, cut - 1)>> \o PySplit(Drop(s, cut - 1))

\* str(n) for n >= 0
RECURSIVE PyStr(_)
PyStr(n) ==
    IF n < 10 THEN <<DigitChars[n + 1]>>
    ELSE PyStr(n \div 10) \o <<DigitChars[(n % 10) + 1]>>

RECURSIVE Zeros(_)
Zeros(k) == IF k <= 0 THEN <<>> ELSE <<"0">> \o Zeros(k - 1)

\* '{:0w}'.format(n): zero padded to at least w characters, the sign first
PyFmt(n, w) ==
    IF n < 0 THEN <<"-">> \o Zeros(w - 1 - Len(PyStr(0 - n))) \o PyStr(0 - n)
    ELSE Zeros(w - Len(PyStr(n))) \o PyStr(n)

\* bytes.decode('utf-8') / str.encode('utf-8') on the modelled alphabet: every
\* byte but "xFF" is ASCII and maps to itself, "xFF" raises UnicodeDecodeError
Decodable(bs) == \A i \in 1..Len(bs) : bs[i] # "xFF"

Decode(bs) == bs

Encode(s) == s

\* ------------------------------------------------------------ wire protocol

NL == "\n"

OK == <<"O", "K">>

ERROR == <<"E", "R", "R", "O", "R">>

\* 'VERS?\n'
VersCmd == <<"V", "E", "R", "S", "?", NL>>

\* 'MEAS{:02}?\n'.format(n)
MeasCmd(n) == <<"M", "E", "A", "S">> \o PyFmt(n, 2) \o <<"?", NL>>

\* 'PWM{}?\n'.format(n)
PwmGetCmd(n) == <<"P", "W", "M">> \o PyStr(n) \o <<"?", NL>>

\* 'PWM{}S{}\n'.format(n, x)
PwmSetCmdUnpadded(n, x) == <<"P", "W", "M">> \o PyStr(n) \o <<"S">> \o PyStr(x) \o <<NL>>

\* 'PWM{}S{:03}\n'.format(n, x)
PwmSetCmd(n, x) == <<"P", "W", "M">> \o PyStr(n) \o <<"S">> \o PyFmt(x, 3) \o <<NL>>

\* --------------------------------------------------------- board emulator

\* _pwm = [0, 25, 25, 25, 35], channels 1..4
InitialPwm == <<25, 25, 25, 35>>

\* The draws standing for random.randint: randint(a, b) is a + (r mod (b-a+1))
RandomDraws == {0, 150, 12345}

RandInt(r, a, b) == a + (r % (b - a + 1))

\* mA() of the emulator's MEAS99 reply
EmuMilliAmp(r) ==
    LET m == RandInt(r, 0 - 99, 99)
    IN  PyFmt(m, IF m >= 0 THEN 2 ELSE 3)

\* meas(code) of the emulator; code is the two characters after 'MEAS'
EmuMeas(code, r) ==
    LET sp == <<" ">>
        ok == <<NL>> \o OK \o <<NL>>
        c2 == IF Len(code) = 2 /\ IsDigit(code[1]) /\ IsDigit(code[2])
              THEN DigitsValue(code) ELSE 0 - 1
    IN  IF c2 \in {0, 1, 2, 3}
        THEN PyFmt(RandInt(r, 0, 999), 3) \o <<" ", "V">> \o ok
        ELSE IF c2 \in {4, 5, 18}
        THEN PyFmt(RandInt(r, 0, 9999), 4) \o <<" ", "m", "V">> \o ok
        ELSE IF c2 \in {6, 10, 11, 12, 13, 15, 17}
        THEN PyFmt(RandInt(r, 0, 99), 2) \o <<" ", "m", "A">> \o ok
        ELSE IF c2 \in {14, 16}
        THEN PyFmt(RandInt(r, 0, 99), 2) \o <<" ", "C">> \o ok
        ELSE IF c2 = 99
        THEN PyFmt(RandInt(r, 0, 999), 3) \o sp \o PyFmt(RandInt(r, 0, 999), 3) \o sp
             \o PyFmt(RandInt(r, 0, 999), 3) \o sp \o PyFmt(RandInt(r, 0, 999), 3) \o sp
             \o PyFmt(RandInt(r, 0, 9999), 4) \o sp \o PyFmt(RandInt(r, 0, 9999), 4) \o sp
             \o EmuMilliAmp(r) \o sp \o <<"0", " ", "0", " ", "0", " ">>
             \o EmuMilliAmp(r) \o sp \o EmuMilliAmp(r) \o sp
             \o EmuMilliAmp(r) \o sp \o EmuMilliAmp(r) \o sp
             \o PyFmt(RandInt(r, 0, 70), 2) \o sp \o EmuMilliAmp(r) \o sp
             \o PyFmt(RandInt(r, 0, 70), 2) \o sp \o EmuMilliAmp(r) \o sp
             \o PyFmt(RandInt(r, 0, 3400), 4) \o ok
        ELSE ERROR \o <<NL>>

\* '{} version {}\nOK\n'.format(__fileName, __version__)
EmuVersion ==
    <<"p", "b", "b", "-", "e", "m", "u", "l", "a", "t", "o", "r", ".", "p", "y", " ",
      "v", "e", "r", "s", "i", "o", "n", " ", "1", ".", "0", "\n", "O", "K", "\n">>

\* One pass of the emulator's main loop on one received command line (with
\* its newline): the reply it writes and its PWM values afterwards.
Emulator(line, pwmv, r) ==
    LET err == ERROR \o <<NL>>
        Channel(v) == IF v.ok THEN v.val ELSE 0 - 1
        Set(n, x) ==
            IF n \notin {1, 2, 3, 4} THEN [reply |-> err, pwmv |-> pwmv]
            ELSE IF x.ok
            THEN [reply |-> PyFmt(x.val, 3) \o <<NL>> \o OK \o <<NL>>,
                  pwmv  |-> [pwmv EXCEPT ![n] = x.val]]
            ELSE [reply |-> err, pwmv |-> pwmv]
        Get(n) ==
            IF n \in {1, 2, 3, 4}
            THEN [reply |-> PyFmt(pwmv[n], 3) \o <<NL>> \o OK \o <<NL>>, pwmv |-> pwmv]
            ELSE [reply |-> err, pwmv |-> pwmv]
        Process(cmd) ==
            IF Take(cmd, 4) = <<"M", "E", "A", "S">>
            THEN [reply |-> EmuMeas(Slice(cmd, 4, 6), r), pwmv |-> pwmv]
            ELSE IF cmd = <<"V", "E", "R", "S", "?">>
            THEN [reply |-> EmuVersion, pwmv |-> pwmv]
            ELSE IF Take(cmd, 3) = <<"P", "W", "M">> /\ Slice(cmd, 4, 5) = <<"S">>
            THEN Set(Channel(PyInt(Slice(cmd, 3, 4))), PyInt(Slice(cmd, 5, 8)))
            ELSE IF Take(cmd, 3) = <<"P", "W", "M">> /\ Slice(cmd, 4, 5) = <<"?">>
            THEN Get(Channel(PyInt(Slice(cmd, 3, 4))))
            ELSE [reply |-> err, pwmv |-> pwmv]
    IN  Process(Take(line, Len(line) - 1))

\* ------------------------------------------------------------------ state

VARIABLES
    devs,       \* the Device instances constructed
    port,       \* port[d]: inbuf = bytes buffered on the serial input,
                \*          wire  = bytes the board has sent that have not arrived
    board,      \* board[d]: the PWM values of the board behind port d
    cmds,       \* Device.cmds, the list bound in the class body (Device.py:27)
    res,        \* outcome of the last call, as its caller sees it
    hist,       \* history: the set commands that returned a reply and the drains
    nops,       \* number of calls made
    data,       \* TableWidget.data, the rows on display
    csv,        \* the data rows written to the CSV file
    widgets,    \* the input consumers registered in main.py: active, buffer, value
    router,     \* InputConsumerManagement.active_consumer: its index, 0 for None
    consumers,  \* InputConsumerManagement.consumers: the indices in order of add()
    cal,        \* startup_screen(): its position, the port's read timeout, the
                \* round, the reply accumulated, and the board it calibrates
    pc,         \* "running" in the main loop, "exited" once an exception left it
    exitmsg,    \* _exit_message of main.py as printed at exit
    ticks,      \* number of measurement events the scheduler has returned
    clock,      \* time.time()
    Heartbeat,  \* IntervalScheduler.Heartbeat: INTERVAL, NEXTEVENT
    Measurement,\* IntervalScheduler.Measurement: INTERVAL, NEXTEVENT
    time_window,\* IntervalScheduler.time_window
    spc,        \* "in next" between the entry of next() and its return
    sch,        \* the last call of the scheduler, as its caller sees it
    anchor,     \* the time of construction or of the last restart(), and
                \* whether intervals and call pattern are unchanged since
    lastfire,   \* per event flag, the time next() last returned it
    stdin,      \* the bytes waiting on stdin, whether it is at end of file,
                \* and the number of key presses made
    chunk,      \* KeyboardInput.chunk
    kpc,        \* "for" while the for loop over the keyboard runs
    kres        \* the last step of the keyboard iterator

devVars == <<devs, port, board, cmds, res, hist, nops>>

schedVars == <<clock, Heartbeat, Measurement, time_window, spc, sch, anchor, lastfire>>

widgetVars == <<data, csv, widgets, router, consumers, cal, pc, exitmsg, ticks>>

keyVars == <<stdin, chunk, kpc, kres>>

appVars == <<widgetVars, schedVars, keyVars>>

Instances == 1..MaxDevices

\* ------------------------------------------------------------ python values

NoneV == [t |-> "none", i |-> 0, s |-> <<>>, l |-> <<>>]

IntV(i) == [t |-> "int", i |-> i, s |-> <<>>, l |-> <<>>]

StrV(s) == [t |-> "str", i |-> 0, s |-> s, l |-> <<>>]

ListV(l) == [t |-> "list", i |-> 0, s |-> <<>>, l |-> l]

\* The exceptions that are instances of ValueError: the three raised by
\* __transact/readln with a message, UnicodeDecodeError, and int()'s.
IsValueError(kind) ==
    kind \in {"ReadTimeout", "DeviceError", "ProtocolViolation",
              "UnicodeDecodeError", "IntValueError"}

\* --------------------------------------------------------- serial.Serial

\* What the driver does with a write: done, SerialTimeoutException after the
\* write timeout, or another SerialException (the port is gone).
WriteOutcomes == {"written", "timeout", "ioerror"}

\* How much of what is in flight arrives while a call waits: all of it, none,
\* up to the end of the first line in flight, or its first byte only; a read
\* can also fail with a SerialException.
ArrivalModes == {"all", "none", "line", "part"}

ReadModes == ArrivalModes \cup {"ioerror"}

FirstNL(bs) ==
    LET at == {i \in 1..Len(bs) : bs[i] = NL}
    IN  IF at = {} THEN 0 ELSE CHOOSE i \in at : \A j \in at : i <= j

Arrived(wire, mode) ==
    IF mode = "all" THEN Len(wire)
    ELSE IF mode = "line" THEN (IF FirstNL(wire) = 0 THEN Len(wire) ELSE FirstNL(wire))
    ELSE IF mode = "part" THEN MinOf(1, Len(wire))
    ELSE 0

\* Replies of a board that does not answer as the emulator does, and line noise
FaultReplies ==
    { OK \o <<NL>>,
      ERROR \o <<NL>>,
      <<"1", "2", NL, "J", "U", "N", "K", NL>>,
      <<"1", "2", NL>> \o ERROR \o <<NL>>,
      <<"xFF", NL>> \o OK \o <<NL>> }

\* What the environment decides during one transaction: the outcome of the
\* write, what arrives during the first and the second readline (a1, a2) and
\* during the 200 ms that follow a failed one (s1, s2).
Scenario(w, a1, s1, a2, s2) == [w |-> w, a1 |-> a1, s1 |-> s1, a2 |-> a2, s2 |-> s2]

\* The reply arrives whole and in time
Prompt == {Scenario("written", "all", "none", "all", "none")}

\* The write fails, a read fails, or a part of the reply is late
Troubled ==
    { Scenario("timeout", "none", "none", "none", "none"),
      Scenario("ioerror", "none", "none", "none", "none"),
      Scenario("written", "ioerror", "none", "none", "none"),
      Scenario("written", "none", "none", "none", "none"),
      Scenario("written", "none", "all", "none", "none"),
      Scenario("written", "part", "line", "none", "none"),
      Scenario("written", "line", "none", "none", "none"),
      Scenario("written", "line", "all", "none", "all") }

Scenarios == Prompt \cup Troubled

\* ------------------------------------------------------------ Device.py

\* A call made on the port or the clock, as the trace of a transaction records it
Call(name) == [call |-> name, ms |-> 0]

\* time.sleep(0.2) of readln()'s ValueError handler, in milliseconds
GracePeriodMs == 200

Sleep(ms) == [call |-> "sleep", ms |-> ms]

\* A handler that sleeps and re-raises without flushing the input
SleepNoFlush(inbuf, late, s) ==
    [port |-> [inbuf |-> inbuf \o Take(late, Arrived(late, s)),
               wire  |-> Drop(late, Arrived(late, s))],
     tr   |-> <<Sleep(GracePeriodMs)>>]

\* The handler of ValueError in readln(): time.sleep(0.2), during which the
\* bytes Arrived(late, s) reach the input buffer, then port.flushInput()
OnValueError(inbuf, late, s) ==
    [port |-> [inbuf |-> <<>>, wire |-> Drop(late, Arrived(late, s))],
     tr   |-> <<Sleep(GracePeriodMs), Call("flushInput")>>]

\* readln() of __transact: port.readline() returns the bytes up to and
\* including the first newline, or on timeout whatever arrived; a missing
\* newline or an undecodable line is a ValueError, raised again by its handler
readln(p, a, s) ==
    LET Failed(exc, line, h) ==
            [exc |-> exc, line |-> line, text |-> <<>>,
             port |-> h.port, tr |-> <<Call("readline")>> \o h.tr]
        Line(buf, late, nl) ==
            IF nl = 0
            THEN Failed("ReadTimeout", buf, OnValueError(<<>>, late, s))
            ELSE IF ~Decodable(Take(buf, nl - 1))
            THEN Failed("UnicodeDecodeError", Take(buf, nl), OnValueError(Drop(buf, nl), late, s))
            ELSE [exc |-> "none", line |-> Take(buf, nl), text |-> Decode(Take(buf, nl - 1)),
                  port |-> [inbuf |-> Drop(buf, nl), wire |-> late],
                  tr |-> <<Call("readline")>>]
        Read(buf, late) == Line(buf, late, FirstNL(buf))
        Wait(k) == Read(p.inbuf \o Take(p.wire, k), Drop(p.wire, k))
    IN  IF a = "ioerror"
        THEN [exc |-> "SerialException", line |-> <<>>, text |-> <<>>,
              port |-> p, tr |-> <<Call("readline")>>]
        ELSE Wait(Arrived(p.wire, a))

\* The handler of SerialTimeoutException in __transact calls log.exception,
\* and no name log is bound in that scope: what leaves is a NameError
WriteTimeoutRaises == "NameError"

\* What __transact does with the first line of the reply
FirstLine(text) ==
    IF text = OK THEN "return"
    ELSE IF text = ERROR THEN "DeviceError"
    ELSE "value"

\* A second line that is not looked at
SecondLineUnchecked(text) == "return"

\* What __transact does with the line after a value

SecondLine(text) == IF text = OK THEN "return" ELSE "ProtocolViolation"

\* __transact(cmd) on port state p; reply is what the board sends back once it
\* has the command. kind is "ok" or the exception that leaves the call; lines
\* are the byte strings readline() returned, tr the calls made on the port.
\* A __transact that returns after the write with what the board is about to
\* send, without reading it
transactNoRead(cmd, p, reply, c) ==
    [kind |-> "ok", val |-> Take(reply, FirstNL(reply) - 1),
     port |-> [p EXCEPT !.wire = @ \o reply], lines |-> <<>>, tr |-> <<Call("write")>>]

transact(cmd, p, reply, c) ==
    LET Got(r) == IF r.exc = "SerialException" THEN <<>> ELSE <<r.line>>
        Out(kind, val, pt, lines, tr) ==
            [kind |-> kind, val |-> val, port |-> pt, lines |-> lines,
             tr |-> <<Call("write")>> \o tr]
        Second(r1, r2) ==
            IF r2.exc # "none"
            THEN Out(r2.exc, <<>>, r2.port, Got(r1) \o Got(r2), r1.tr \o r2.tr)
            ELSE IF SecondLine(r2.text) = "return"
            THEN Out("ok", r1.text, r2.port, Got(r1) \o Got(r2), r1.tr \o r2.tr)
            ELSE Out(SecondLine(r2.text), <<>>, r2.port, Got(r1) \o Got(r2), r1.tr \o r2.tr)
        First(r1) ==
            IF r1.exc # "none" THEN Out(r1.exc, <<>>, r1.port, Got(r1), r1.tr)
            ELSE IF FirstLine(r1.text) = "return"
            THEN Out("ok", r1.text, r1.port, Got(r1), r1.tr)
            ELSE IF FirstLine(r1.text) # "value"
            THEN Out(FirstLine(r1.text), <<>>, r1.port, Got(r1), r1.tr)
            ELSE Second(r1, readln(r1.port, c.a2, c.s2))
    IN  IF c.w = "timeout" THEN Out(WriteTimeoutRaises, <<>>, p, <<>>, <<>>)
        ELSE IF c.w = "ioerror" THEN Out("SerialException", <<>>, p, <<>>, <<>>)
        ELSE First(readln([p EXCEPT !.wire = @ \o reply], c.a1, c.s1))

\* Three characters whatever the selector
ThreeChars(n) == 3

\* The number of leading characters of the value that meas() hands to int()
\* for a selector of its table

MeasWidth(n) ==
    IF n \in {0, 1, 2, 3} THEN 3
    ELSE IF n \in {4, 5, 18} THEN 4
    ELSE IF n \in {6, 10, 11, 12, 13, 15, 17} THEN 2
    ELSE 2

\* An else branch that raises
UnknownSelectorRaises(n) == [kind |-> "ValueError", val |-> NoneV, logged |-> TRUE]

\* The else branch of meas(): log.critical, then the marker 'n={:02}'

UnknownSelector(n) ==
    [kind |-> "ok", val |-> StrV(<<"n", "=">> \o PyFmt(n, 2)), logged |-> TRUE]

\* Lines 66-78 of meas(): the value of the reply decoded by selector
MeasDecode(n, val) ==
    LET raise == [kind |-> "IntValueError", val |-> NoneV, logged |-> FALSE]
        Number(v) ==
            IF v.ok THEN [kind |-> "ok", val |-> IntV(v.val), logged |-> FALSE] ELSE raise
        Numbers(toks) ==
            IF \A i \in 1..Len(toks) : PyInt(toks[i]).ok
            THEN [kind |-> "ok", logged |-> FALSE,
                  val |-> ListV([i \in 1..Len(toks) |-> PyInt(toks[i]).val])]
            ELSE raise
    IN  IF n \in {0, 1, 2, 3} \cup {4, 5, 18} \cup {6, 10, 11, 12, 13, 15, 17} \cup {14, 16}
        THEN Number(PyInt(Take(val, MeasWidth(n))))
        ELSE IF n = 99 THEN Numbers(PySplit(val))
        ELSE UnknownSelector(n)

\* meas(n): the transaction, then the decoding; every exception leaves
meas(n, p, reply, c) ==
    LET Decoded(t, v) ==
            [kind |-> v.kind, val |-> v.val, logged |-> v.logged, port |-> t.port, tx |-> t]
        Done(t) ==
            IF t.kind # "ok"
            THEN [kind |-> t.kind, val |-> NoneV, logged |-> FALSE, port |-> t.port, tx |-> t]
            ELSE Decoded(t, MeasDecode(n, t.val))
    IN  Done(transact(MeasCmd(n), p, reply, c))

\* version()
version(p, reply, c) ==
    LET Done(t) == [kind |-> t.kind, val |-> IF t.kind = "ok" THEN StrV(t.val) ELSE NoneV,
                    port |-> t.port, tx |-> t]
    IN  Done(transact(VersCmd, p, reply, c))

\* A pwm() that appends the command before it knows what __transact did
pwmLogsFirst(t, log, log1, v) ==
    IF t.kind # "ok"
    THEN [kind |-> t.kind, val |-> NoneV, port |-> t.port, cmds |-> log1, tx |-> t]
    ELSE IF ~v.ok
    THEN [kind |-> "IntValueError", val |-> NoneV, port |-> t.port, cmds |-> log1, tx |-> t]
    ELSE [kind |-> "ok", val |-> IntV(v.val), port |-> t.port, cmds |-> log1, tx |-> t]

\* The lines of pwm() after __transact: the set command is appended to cmds
\* once __transact has returned, then int(val) is returned. log1 is the list
\* with the command appended (the list itself for a query).
pwmReturn(t, log, log1, v) ==
    IF t.kind # "ok"
    THEN [kind |-> t.kind, val |-> NoneV, port |-> t.port, cmds |-> log, tx |-> t]
    ELSE IF ~v.ok
    THEN [kind |-> "IntValueError", val |-> NoneV, port |-> t.port, cmds |-> log1, tx |-> t]
    ELSE [kind |-> "ok", val |-> IntV(v.val), port |-> t.port, cmds |-> log1, tx |-> t]

\* A pwm() that appends the command of a query too
pwmLogsQueries(n, x, p, log, reply, c) ==
    LET Done(t, log1) == pwmReturn(t, log, log1, PyInt(t.val))
        Send(cmd) == Done(transact(cmd, p, reply, c), Append(log, cmd))
    IN  Send(IF x.t = "none" THEN PwmGetCmd(n) ELSE PwmSetCmd(n, x.i))

\* pwm(n, x): x is NoneV for the query PWMn?, IntV for the set PWMnSxxx
pwm(n, x, p, log, reply, c) ==
    LET Done(t, log1) == pwmReturn(t, log, log1, PyInt(t.val))
        Send(cmd) ==
            Done(transact(cmd, p, reply, c), IF x.t = "none" THEN log ELSE Append(log, cmd))
    IN  Send(IF x.t = "none" THEN PwmGetCmd(n) ELSE PwmSetCmd(n, x.i))

\* ",".join(list)
RECURSIVE JoinComma(_)
JoinComma(list) ==
    IF list = <<>> THEN <<>>
    ELSE IF Len(list) = 1 THEN list[1]
    ELSE list[1] \o <<",">> \o JoinComma(Tail(list))

\* s.replace('\n', ' ')
ReplaceNL(s) == [i \in 1..Len(s) |-> IF s[i] = NL THEN " " ELSE s[i]]

\* A commands() that leaves the list as it is
commandsKeepsLog(log) == [out |-> ReplaceNL(JoinComma(log)), cmds |-> log]

\* commands(): the joined list, and the list emptied in place

commands(log) == [out |-> ReplaceNL(JoinComma(log)), cmds |-> <<>>]

\* ------------------------------------------------- calls on a Device instance

NoTx == [kind |-> "none", val |-> <<>>, port |-> [inbuf |-> <<>>, wire |-> <<>>],
         lines |-> <<>>, tr |-> <<>>]

\* res: the call (op, d, n, x, cmd), what the environment did during it (c,
\* reply, pre = the port before it) and what came back (kind, val, logged, tx)
NoRes == [op |-> "none", d |-> 0, n |-> 0, x |-> NoneV, cmd |-> <<>>, key |-> "",
          c |-> Scenario("none", "none", "none", "none", "none"), reply |-> <<>>,
          pre |-> [inbuf |-> <<>>, wire |-> <<>>],
          kind |-> "none", val |-> NoneV, logged |-> FALSE, tx |-> NoTx,
          seen |-> <<>>, act |-> 0]

\* Selectors queried: the decode table and four outside it
MeasSelectors == (0..19) \cup {99}

\* What the board sends for a command: the emulator's reply or a faulty one
Replies(cmd, pwmv, env) ==
    {Emulator(cmd, pwmv, r).reply : r \in env.draws} \cup env.faults

\* A board that forgets what was written to it
DeliveredNever(c, cmd, pwmv) == pwmv

\* The board has the command when the write completed
Delivered(c, cmd, pwmv) ==
    IF c.w = "written" THEN Emulator(cmd, pwmv, 0).pwmv ELSE pwmv

\* In the actions below, env is the environment a specification lets act:
\* scen the scenarios, faults the faulty replies, ops the number of calls.

Version(d, env) ==
    /\ nops < env.ops
    /\ \E c \in env.scen, reply \in Replies(VersCmd, board[d], env) :
          \E o \in {version(port[d], reply, c)} :
              /\ port' = [port EXCEPT ![d] = o.port]
              /\ res' = [NoRes EXCEPT !.op = "version", !.d = d, !.kind = o.kind,
                                      !.val = o.val, !.cmd = VersCmd, !.c = c,
                                      !.reply = reply, !.pre = port[d], !.tx = o.tx]
    /\ nops' = nops + 1
    /\ UNCHANGED <<devs, board, cmds, hist, appVars>>

Meas(d, n, env) ==
    /\ nops < env.ops
    /\ \E c \in env.scen, reply \in Replies(MeasCmd(n), board[d], env) :
          \E o \in {meas(n, port[d], reply, c)} :
              /\ port' = [port EXCEPT ![d] = o.port]
              /\ res' = [NoRes EXCEPT !.op = "meas", !.d = d, !.n = n, !.kind = o.kind,
                                      !.val = o.val, !.logged = o.logged,
                                      !.cmd = MeasCmd(n), !.c = c, !.reply = reply,
                                      !.pre = port[d], !.tx = o.tx]
    /\ nops' = nops + 1
    /\ UNCHANGED <<devs, board, cmds, hist, appVars>>

PwmGet(d, n, env) ==
    /\ nops < env.ops
    /\ \E c \in env.scen, reply \in Replies(PwmGetCmd(n), board[d], env) :
          \E o \in {pwm(n, NoneV, port[d], cmds, reply, c)} :
              /\ port' = [port EXCEPT ![d] = o.port]
              /\ cmds' = o.cmds
              /\ res' = [NoRes EXCEPT !.op = "pwmget", !.d = d, !.n = n, !.kind = o.kind,
                                      !.val = o.val, !.cmd = PwmGetCmd(n), !.c = c, !.reply = reply,
                                      !.pre = port[d], !.tx = o.tx]
    /\ nops' = nops + 1
    /\ UNCHANGED <<devs, board, hist, appVars>>

PwmSet(d, n, x, env) ==
    /\ nops < env.ops
    /\ \E c \in env.scen, reply \in Replies(PwmSetCmd(n, x), board[d], env) :
          \E o \in {pwm(n, IntV(x), port[d], cmds, reply, c)} :
              /\ port' = [port EXCEPT ![d] = o.port]
              /\ board' = [board EXCEPT ![d] = Delivered(c, PwmSetCmd(n, x), @)]
              /\ cmds' = o.cmds
              /\ hist' = IF o.tx.kind = "ok"
                         THEN Append(hist, [e |-> "set", d |-> d, s |-> PwmSetCmd(n, x)])
                         ELSE hist
              /\ res' = [NoRes EXCEPT !.op = "pwmset", !.d = d, !.n = n, !.x = IntV(x),
                                      !.kind = o.kind, !.val = o.val,
                                      !.cmd = PwmSetCmd(n, x), !.c = c, !.reply = reply,
                                      !.pre = port[d], !.tx = o.tx]
    /\ nops' = nops + 1
    /\ UNCHANGED <<devs, appVars>>

Commands(d, env) ==
    /\ nops < env.ops
    /\ \E o \in {commands(cmds)} :
           /\ cmds' = o.cmds
           /\ hist' = Append(hist, [e |-> "drain", d |-> d, s |-> o.out])
           /\ res' = [NoRes EXCEPT !.op = "commands", !.d = d, !.kind = "ok",
                                   !.val = StrV(o.out)]
    /\ nops' = nops + 1
    /\ UNCHANGED <<devs, port, board, appVars>>

\* Bytes in flight reach the input buffer while no call is running
LateArrival(d) ==
    /\ \E a \in {"all", "line"} :
          /\ Arrived(port[d].wire, a) > 0
          /\ port' = [port EXCEPT ![d] =
                        [inbuf |-> @.inbuf \o Take(@.wire, Arrived(@.wire, a)),
                         wire  |-> Drop(@.wire, Arrived(@.wire, a))]]
    /\ UNCHANGED <<devs, board, cmds, res, hist, nops, appVars>>

\* ------------------------------------------------------------ Widget.py

\* TableWidget.rows
TableRows == 19

\* A row of the table: the time it was made, the 14 measurements shown, and
\* the commands column; NoRow is None
NoRow == [time |-> 0, vals |-> <<>>, cmds |-> <<>>]

\* ['ERR' for x in range(0,19)]
ErrList == [i \in 1..19 |-> StrV(<<"E", "R", "R">>)]

\* The tuple TableWidget.get() builds from the list meas, without its time
\* and commands: meas[6], meas[0..3], meas[10..13], meas[4], meas[5],
\* meas[18], meas[14], meas[16]
RowOf(m) ==
    <<m[7], m[1], m[2], m[3], m[4], m[11], m[12], m[13], m[14], m[5], m[6],
      m[19], m[15], m[17]>>

\* The board's reply to a command: the emulator's, or f when f is not empty
BoardReply(cmd, pwmv, r, f) == IF f = <<>> THEN Emulator(cmd, pwmv, r).reply ELSE f

\* TableWidget.get() on the device state dv = [port, board, cmds] at time now.
\* Only ValueError is caught and replaced by the list of 'ERR'; the row is
\* built before commands() is called, and add() appends it, drops the oldest
\* row and writes the new one to the CSV file. raised is the exception that
\* leaves get(), "none" if it returns.
TableGet(dv, rows, file, now, c, r, f) ==
    LET Raise(kind, pt, call) ==
            [raised |-> kind, dv |-> [dv EXCEPT !.port = pt], data |-> rows,
             csv |-> file, call |-> call]
        Add(row, left, pt, call) ==
            [raised |-> "none", dv |-> [dv EXCEPT !.port = pt, !.cmds = left],
             data |-> Tail(Append(rows, row)), csv |-> Append(file, row), call |-> call]
        Drain(list, out, pt, call) ==
            Add([time |-> now, vals |-> RowOf(list), cmds |-> out.out], out.cmds, pt, call)
        Row(list, pt, call) ==
            IF Len(list) < 19 THEN Raise("IndexError", pt, call)
            ELSE Drain(list, commands(dv.cmds), pt, call)
        Got(m, call) ==
            IF m.kind = "ok"
            THEN Row([i \in 1..Len(m.val.l) |-> IntV(m.val.l[i])], m.port, call)
            ELSE IF IsValueError(m.kind) THEN Row(ErrList, m.port, call)
            ELSE Raise(m.kind, m.port, call)
        Done(m, reply) ==
            Got(m, [cmd |-> MeasCmd(99), c |-> c, reply |-> reply, pre |-> dv.port,
                    tx |-> m.tx])
        Query(reply) == Done(meas(99, dv.port, reply, c), reply)
    IN  Query(BoardReply(MeasCmd(99), dv.board, r, f))

\* The consumers main.py registers, in order: the PWM widgets of channels 1-4
\* and the interval widget
NumConsumers == 5

\* The triggers of those five, and of InputConsumer("F4") of the usage example
\* of KeyboardInput.py
Trigger(i) == <<"F1", "F2", "F3", "F4", "F9", "F4">>[i]

\* The number of characters of each name among the values of translate
NameLengths ==
    { <<"ESC", 3>>, <<"F1", 2>>, <<"F2", 2>>, <<"F3", 2>>, <<"F4", 2>>, <<"F5", 2>>,
      <<"F6", 2>>, <<"F7", 2>>, <<"F8", 2>>, <<"F9", 2>>, <<"F10", 3>>, <<"F11", 3>>,
      <<"F12", 3>>, <<"HOME", 4>>, <<"INS", 3>>, <<"DEL", 3>>, <<"END", 3>>,
      <<"PAGEUP", 6>>, <<"PAGEDOWN", 8>>, <<"UP", 2>>, <<"DOWN", 4>>, <<"RIGHT", 5>>,
      <<"LEFT", 4>>, <<"BACKSPACE", 9>>, <<"ENTER", 5>>, <<"TAB", 3>>,
      <<"SHIFT-TAB", 9>> }

\* len(key) of a token: of a name, of the empty string, of one character
TokenLen(k) ==
    IF k = "" THEN 0
    ELSE IF \E e \in NameLengths : e[1] = k
    THEN (CHOOSE e \in NameLengths : e[1] = k)[2]
    ELSE 1

\* An InputConsumer whose ENTER keeps the buffer
InputConsumerKeepsBuffer(w, trigger, key) ==
    IF ~w.active
    THEN (IF key = trigger THEN [w EXCEPT !.active = TRUE] ELSE w)
    ELSE IF key \in {"ESC", trigger}
    THEN [w EXCEPT !.buffer = <<>>, !.active = FALSE]
    ELSE IF key = "ENTER"
    THEN [w EXCEPT !.value = w.buffer, !.active = FALSE]
    ELSE IF TokenLen(key) = 1
    THEN [w EXCEPT !.buffer = Append(@, key)]
    ELSE w

\* InputConsumer.process_input(key), the example consumer of KeyboardInput.py,
\* in state w: any token of one character is appended to the buffer, ENTER
\* makes the buffer the value. The result of the call is the new w.active.
InputConsumer(w, trigger, key) ==
    IF ~w.active
    THEN (IF key = trigger THEN [w EXCEPT !.active = TRUE] ELSE w)
    ELSE IF key \in {"ESC", trigger}
    THEN [w EXCEPT !.buffer = <<>>, !.active = FALSE]
    ELSE IF key \in {"DEL", "BACKSPACE"}
    THEN [w EXCEPT !.buffer = SubSeq(@, 1, Len(@) - 1)]
    ELSE IF key = "ENTER"
    THEN [w EXCEPT !.value = w.buffer, !.buffer = <<>>, !.active = FALSE]
    ELSE IF TokenLen(key) = 1
    THEN [w EXCEPT !.buffer = Append(@, key)]
    ELSE w

NoCall == [cmd |-> <<>>, c |-> Scenario("none", "none", "none", "none", "none"),
           reply |-> <<>>, pre |-> [inbuf |-> <<>>, wire |-> <<>>], tx |-> NoTx]

\* A __set(val) that sends nothing
WidgetSetSilent(w, i, val, dv, c, f) == [w |-> w, dv |-> dv, call |-> NoCall, sets |-> <<>>]

\* PWMWidget.__set(val): the value becomes what pwm() returns; whatever pwm()
\* raises is caught by the bare except and logged, and __set returns
WidgetSet(w, i, val, dv, c, f) ==
    LET Done(o, cmd, reply) ==
            [w    |-> IF o.kind = "ok" THEN [w EXCEPT !.value = o.val.i] ELSE w,
             dv   |-> [port |-> o.port, board |-> Delivered(c, cmd, dv.board),
                       cmds |-> o.cmds],
             call |-> [cmd |-> cmd, c |-> c, reply |-> reply, pre |-> dv.port, tx |-> o.tx],
             sets |-> IF o.tx.kind = "ok" THEN <<cmd>> ELSE <<>>]
        Reply(cmd, reply) == Done(pwm(i, IntV(val), dv.port, dv.cmds, reply, c), cmd, reply)
        Send(cmd) == Reply(cmd, BoardReply(cmd, dv.board, 0, f))
    IN  Send(PwmSetCmd(i, val))

\* process_input(key) of consumer i in state w; a consumer after those of
\* main.py is an InputConsumer. ENTER with a buffer calls
\* __set(int(buffer)) on a PWM widget and scheduler.measurement(int(buffer)) on
\* the interval widget. The result of the call is the new w.active.
process_input(w, i, key, dv, c, f) ==
    LET same == [w |-> w, dv |-> dv, call |-> NoCall, sets |-> <<>>]
        val  == PyInt(w.buffer).val
        done == IF i <= 4 THEN WidgetSet(w, i, val, dv, c, f)
                ELSE [same EXCEPT !.w.value = val]
    IN  IF i > NumConsumers
        THEN [same EXCEPT !.w = InputConsumer(w, Trigger(i), key)]
        ELSE IF ~w.active
        THEN (IF key = Trigger(i) THEN [same EXCEPT !.w.active = TRUE] ELSE same)
        ELSE IF key \in {"ESC", Trigger(i)}
        THEN [same EXCEPT !.w.buffer = <<>>, !.w.active = FALSE]
        ELSE IF key \in {"DEL", "BACKSPACE"}
        THEN [same EXCEPT !.w.buffer = SubSeq(@, 1, Len(@) - 1)]
        ELSE IF key = "ENTER"
        THEN (IF w.buffer # <<>>
              THEN [done EXCEPT !.w.buffer = <<>>, !.w.active = FALSE]
              ELSE [same EXCEPT !.w.active = FALSE])
        ELSE IF IsDigit(key)
        THEN (IF Len(w.buffer) < 3 THEN [same EXCEPT !.w.buffer = Append(@, key)] ELSE same)
        ELSE same

\* The loop of input() over the consumers without its break
RECURSIVE OfferNoBreak(_, _, _, _, _, _)
OfferNoBreak(cs, ws, key, dv, c, f) ==
    LET Rest(i, r, nxt) ==
            [nxt EXCEPT !.call = IF @ = NoCall THEN r.call ELSE @, !.sets = r.sets \o @,
                        !.seen = <<i>> \o @,
                        !.router = IF r.w.active THEN i ELSE @]
        Step(i, r) ==
            Rest(i, r, OfferNoBreak(Tail(cs), [ws EXCEPT ![i] = r.w], key, r.dv, c, f))
    IN  IF cs = <<>>
        THEN [ws |-> ws, dv |-> dv, router |-> 0, call |-> NoCall, sets |-> <<>>,
              seen |-> <<>>]
        ELSE Step(Head(cs), process_input(ws[Head(cs)], Head(cs), key, dv, c, f))

\* The loop of InputConsumerManagement.input() over the consumers cs still to
\* be offered the key, when there is no active consumer: the first whose
\* process_input returns True becomes the active one and ends the loop. seen
\* lists the consumers whose process_input was called.
RECURSIVE Offer(_, _, _, _, _, _)
Offer(cs, ws, key, dv, c, f) ==
    LET Rest(i, r, nxt) ==
            [nxt EXCEPT !.call = IF @ = NoCall THEN r.call ELSE @, !.sets = r.sets \o @,
                        !.seen = <<i>> \o @]
        Step(i, r) ==
            IF r.w.active
            THEN [ws |-> [ws EXCEPT ![i] = r.w], dv |-> r.dv, router |-> i,
                  call |-> r.call, sets |-> r.sets, seen |-> <<i>>]
            ELSE Rest(i, r, Offer(Tail(cs), [ws EXCEPT ![i] = r.w], key, r.dv, c, f))
    IN  IF cs = <<>>
        THEN [ws |-> ws, dv |-> dv, router |-> 0, call |-> NoCall, sets |-> <<>>,
              seen |-> <<>>]
        ELSE Step(Head(cs), process_input(ws[Head(cs)], Head(cs), key, dv, c, f))

\* InputConsumerManagement.add(consumer)
add(cs, i) == Append(cs, i)

\* input() that forgets the active consumer after every key it gave to it
inputDropsSlot(act, cs, ws, key, dv, c, f) ==
    LET Done(r) ==
            [ws |-> [ws EXCEPT ![act] = r.w], dv |-> r.dv,
             router |-> 0, call |-> r.call, sets |-> r.sets, seen |-> <<act>>]
    IN  IF act = 0 THEN Offer(cs, ws, key, dv, c, f)
        ELSE Done(process_input(ws[act], act, key, dv, c, f))

\* input() that offers every key to every consumer
inputBroadcast(act, cs, ws, key, dv, c, f) == OfferNoBreak(cs, ws, key, dv, c, f)

\* input() that leaves active_consumer as it is when the active consumer
\* returns False
inputKeepsSlot(act, cs, ws, key, dv, c, f) ==
    LET Done(r) ==
            [ws |-> [ws EXCEPT ![act] = r.w], dv |-> r.dv,
             router |-> act, call |-> r.call, sets |-> r.sets, seen |-> <<act>>]
    IN  IF act = 0 THEN Offer(cs, ws, key, dv, c, f)
        ELSE Done(process_input(ws[act], act, key, dv, c, f))

\* InputConsumerManagement.input(key) with active_consumer = act and
\* consumers = cs
input(act, cs, ws, key, dv, c, f) ==
    LET Done(r) ==
            [ws |-> [ws EXCEPT ![act] = r.w], dv |-> r.dv,
             router |-> IF r.w.active THEN act ELSE 0, call |-> r.call, sets |-> r.sets,
             seen |-> <<act>>]
    IN  IF act = 0 THEN Offer(cs, ws, key, dv, c, f)
        ELSE Done(process_input(ws[act], act, key, dv, c, f))

\* ---------------------------------------------------------- startup.py

\* Config.Timeout, in milliseconds
ConfigTimeoutMs == 100

\* timeout = 1 of dev._read(), in milliseconds
ReadTimeoutMs == 1000

\* time.sleep(0.5) of the emulator between two dots, in milliseconds
DotMs == 500

\* What the board sends in one piece, and a pause of the board
Sends(text) == [ms |-> 0, text |-> text]

Pause(ms) == [ms |-> ms, text |-> <<>>]

RECURSIVE Dots(_)
Dots(n) == IF n = 0 THEN <<>> ELSE <<Pause(DotMs), Sends(<<".">>)>> \o Dots(n - 1)

\* rrr() of the emulator with n dots
EmuRrr(n) ==
    << Sends(
        <<"Z", "e", "r", "o", " ", "l", "e", "v", "e", "l", "s", " ", "a", "r", "e",
          " ", "t", "o", " ", "b", "e", " ", "c", "a", "l", "i", "b", "r", "a", "t",
          "e", "d", ".", NL>>),
       Sends(
        <<"S", "h", "u", "t", "t", "i", "n", "g", " ", "d", "o", "w", "n", ",", " ",
          "p", "l", "e", "a", "s", "e", " ", "w", "a", "i", "t">>
       ) >> \o Dots(n) \o
    << Sends(<<NL>>),
       Sends(
        <<"6", " ", " ", " ", " ", " ", " ", " ", "1", "9", " ", " ", " ", " ", " ",
          " ", "3", "6", " ", " ", " ", " ", " ", " ", "-", "7", " ", " ", " ", " ",
          " ", " ", "2", "9", "6", NL>>),
       Sends(OK \o <<NL>>) >>

\* s[-n:]
Last(s, n) == Drop(s, Len(s) - MinOf(n, Len(s)))

\* A test that ends a round on any complete line
RoundEndAnyLine(buffer) == IF Last(buffer, 1) = <<NL>> THEN "ok" ELSE "more"

\* The two tests on the accumulated reply after each chunk: buffer[-3:] and
\* buffer[-6:]
RoundEnd(buffer) ==
    IF Last(buffer, 3) = OK \o <<NL>> THEN "ok"
    ELSE IF Last(buffer, 6) = ERROR \o <<NL>> THEN "error"
    ELSE "more"

\* startup_screen() before the calibration, on a port opened with
\* Config.Timeout. at: where startup_screen() is; n: the round; sent: the
\* RRR commands written; ends: how the rounds so far ended; waited: the time
\* the select() of _read() has waited; inbuf, wire: what has arrived at the
\* port and what the board has still to send.
NoCal ==
    [at |-> "label", n |-> 0, timeout |-> ConfigTimeoutMs, old |-> ConfigTimeoutMs,
     buffer |-> <<>>, sent |-> 0, ends |-> <<>>, waited |-> 0, inbuf |-> <<>>,
     wire |-> <<>>]

\* The number of dots the board sends while it discharges
MaxDots == 2

\* The board completes as the emulator does, reports ERROR, falls silent,
\* sends the OK line in two pieces, or pauses for a second before it
BoardScripts ==
    LET Ending(script, items) == SubSeq(script, 1, Len(script) - 1) \o items
        Endings == { <<Sends(ERROR \o <<NL>>)>>, <<>>,
                     <<Sends(<<"O">>), Sends(<<"K", NL>>)>>,
                     <<Pause(2 * DotMs), Sends(OK \o <<NL>>)>> }
    IN  UNION {{EmuRrr(n)} \cup {Ending(EmuRrr(n), e) : e \in Endings} : n \in 0..MaxDots}

calRest ==
    <<devVars, data, csv, widgets, router, consumers, pc, exitmsg, ticks, schedVars,
      keyVars>>

\* The port is made non-blocking for the calibration
CalStart ==
    /\ cal.at = "label"
    /\ cal' = [cal EXCEPT !.old = cal.timeout, !.timeout = 0, !.at = "write"]
    /\ UNCHANGED calRest

\* dev._write("RRR\n") at the start of a round; the board begins to answer
CalWrite(w, script) ==
    /\ cal.at = "write"
    /\ cal' = IF w = "written"
              THEN [cal EXCEPT !.sent = @ + 1, !.buffer = <<>>, !.wire = @ \o script,
                               !.waited = 0, !.at = "read"]
              ELSE [cal EXCEPT !.ends = Append(@, "write"), !.at = "aborted"]
    /\ UNCHANGED calRest

\* The board while startup_screen() waits in select(): it sends its next
\* piece, pauses, or stays silent after its last piece
Board ==
    /\ cal.at = "read"
    /\ cal.waited < ReadTimeoutMs
    /\ \/ /\ cal.wire # <<>> /\ Head(cal.wire).ms = 0
          /\ cal' = [cal EXCEPT !.inbuf = @ \o Head(cal.wire).text, !.wire = Tail(@)]
       \/ /\ cal.wire # <<>> /\ Head(cal.wire).ms > 0 /\ cal.inbuf = <<>>
          /\ cal' = [cal EXCEPT !.waited = @ + Head(cal.wire).ms, !.wire = Tail(@)]
       \/ /\ cal.wire = <<>> /\ cal.inbuf = <<>>
          /\ cal' = [cal EXCEPT !.waited = ReadTimeoutMs]
    /\ UNCHANGED calRest

\* One turn of the while loop: dev._read(timeout = 1, size = 1024) returns
\* what has arrived or raises after a second without data; the chunk is
\* added to the buffer and the buffer tested
CalRead ==
    /\ cal.at = "read"
    /\ IF cal.inbuf # <<>>
       THEN \E b \in {cal.buffer \o cal.inbuf} :
               cal' = [cal EXCEPT !.buffer = b, !.inbuf = <<>>, !.waited = 0,
                          !.ends = IF RoundEnd(b) = "more" THEN @ ELSE Append(@, RoundEnd(b)),
                          !.at = CASE RoundEnd(b) = "ok" -> "sleep"
                                   [] RoundEnd(b) = "error" -> "aborted"
                                   [] OTHER -> "read"]
       ELSE /\ cal.waited >= ReadTimeoutMs
            /\ cal' = [cal EXCEPT !.ends = Append(@, "timeout"), !.at = "aborted"]
    /\ UNCHANGED calRest

\* time.sleep(0.2) after a round, and the next round or, after the second,
\* the restoring of the port's timeout
CalSleep ==
    /\ cal.at = "sleep"
    /\ cal' = IF cal.n + 1 < 2
              THEN [cal EXCEPT !.n = @ + 1, !.at = "write"]
              ELSE [cal EXCEPT !.n = @ + 1, !.timeout = cal.old, !.at = "done"]
    /\ UNCHANGED calRest

\* ------------------------------------------------------------ main.py

\* Config.Interval
ConfigInterval == 10

\* _exit_message, without its colour escapes, when the loop was left by an
\* exception other than CTRL-C
Abnormal == "Abnormal program termination! See log for details."

\* The device of main.py
MainDev == 1

DevOf(d) == [port |-> port[d], board |-> board[d], cmds |-> cmds]

AppendSets(h, d, sets) ==
    h \o [i \in 1..Len(sets) |-> [e |-> "set", d |-> d, s |-> sets[i]]]

\* One pass of the main loop in which next() returns with MEASUREMENT set:
\* tbl.get(). What it raises leaves the loop and is reported at exit.
MeasurementTick(env) ==
    /\ pc = "running"
    /\ nops < env.ops
    /\ \E c \in env.scen, r \in env.draws, f \in env.faults \cup {<<>>} :
          \E o \in {TableGet(DevOf(MainDev), data, csv, ticks + 1, c, r, f)} :
              /\ port' = [port EXCEPT ![MainDev] = o.dv.port]
              /\ cmds' = o.dv.cmds
              /\ data' = o.data
              /\ csv' = o.csv
              /\ hist' = IF o.raised = "none"
                         THEN Append(hist, [e |-> "drain", d |-> MainDev,
                                            s |-> o.data[Len(o.data)].cmds])
                         ELSE hist
              /\ pc' = IF o.raised = "none" THEN "running" ELSE "exited"
              /\ exitmsg' = IF o.raised = "none" THEN exitmsg ELSE Abnormal
              /\ res' = [NoRes EXCEPT !.op = "tick", !.d = MainDev, !.n = 99,
                                      !.cmd = o.call.cmd, !.c = o.call.c,
                                      !.reply = o.call.reply, !.pre = o.call.pre,
                                      !.tx = o.call.tx,
                                      !.kind = IF o.raised = "none" THEN "ok" ELSE o.raised]
    /\ ticks' = ticks + 1
    /\ nops' = nops + 1
    /\ UNCHANGED <<devs, board, widgets, router, consumers, cal, schedVars, keyVars>>

\* manage.input(key) in the main loop. ENTER on the interval widget with a
\* buffer is scheduler.measurement(int(buffer)), which sets the INTERVAL of the
\* measurement source, here in hundredths of the seconds typed, and leaves
\* its NEXTEVENT as it is.
Dispatch(env, key) ==
    /\ pc = "running"
    /\ nops < env.ops
    /\ \E c \in env.scen, f \in env.faults \cup {<<>>} :
          \E o \in {input(router, consumers, widgets, key, DevOf(MainDev), c, f)} :
              /\ port' = [port EXCEPT ![MainDev] = o.dv.port]
              /\ board' = [board EXCEPT ![MainDev] = o.dv.board]
              /\ cmds' = o.dv.cmds
              /\ widgets' = o.ws
              /\ router' = o.router
              /\ hist' = AppendSets(hist, MainDev, o.sets)
              /\ res' = [NoRes EXCEPT !.op = "key", !.d = MainDev, !.key = key,
                                      !.cmd = o.call.cmd, !.c = o.call.c,
                                      !.reply = o.call.reply, !.pre = o.call.pre,
                                      !.tx = o.call.tx, !.kind = "ok",
                                      !.seen = o.seen, !.act = router]
              /\ Measurement' =
                    IF router = 5 /\ key = "ENTER" /\ widgets[5].buffer # <<>>
                    THEN [Measurement EXCEPT !.INTERVAL = o.ws[5].value * 100]
                    ELSE Measurement
    /\ anchor' = [anchor EXCEPT !.fixed = @ /\ Measurement' = Measurement,
                                !.steady = @ /\ Measurement' = Measurement]
    /\ nops' = nops + 1
    /\ UNCHANGED <<devs, data, csv, consumers, cal, pc, exitmsg, ticks>>
    /\ UNCHANGED <<clock, Heartbeat, time_window, spc, sch, lastfire>>

\* A key read in the main loop
KeyInput(env) ==
    \E key \in env.keys : Dispatch(env, key) /\ UNCHANGED keyVars

--------------------------------------------------------------------------
\* IntervalScheduler.py. Time is counted in whole ticks of the clock
\* time.time() reads; one tick stands for 10 ms where main.py's Config
\* values are used.

\* Event flags
HEARTBEAT == 1

MEASUREMENT == 2

\* events & flag
HasFlag(events, flag) == (events \div flag) % 2 = 1

\* Config.Heartbeat, 0.05 s
ConfigHeartbeat == 5

\* Config.Timewindow, 0.05 s
ConfigTimewindow == 5

\* A source as __init__ and restart() schedule it at time now
Scheduled(interval, now) == [INTERVAL |-> interval, NEXTEVENT |-> now + interval]

\* Variant: the time from now to the latest event
SleepToLatest(hb, ms, now) ==
    (IF hb.NEXTEVENT > ms.NEXTEVENT THEN hb.NEXTEVENT ELSE ms.NEXTEVENT) - now

\* sleep_duration of next(): the time from now to the earliest event
SleepDuration(hb, ms, now) == MinOf(hb.NEXTEVENT, ms.NEXTEVENT) - now

\* time.sleep() is called for a positive duration only
Slept(d) == IF d > 0 THEN d ELSE 0

\* trigger_time of next(): now is the time read on entry, before the sleep;
\* wake, the time the sleep ended, is not read
TriggerTime(now, wake, tw) == now + tw

\* Variant: a source due exactly at trigger_time is reported too
TriggeredAtWindow(src, trigger_time) == src.NEXTEVENT <= trigger_time

\* The test that reports a source
Triggered(src, trigger_time) == src.NEXTEVENT < trigger_time

\* Variant: the events missed while the caller stalled are skipped
RescheduleSkipsMissed(src, now) ==
    IF src.INTERVAL = 0 \/ src.NEXTEVENT + src.INTERVAL > now
    THEN [src EXCEPT !.NEXTEVENT = @ + src.INTERVAL]
    ELSE [src EXCEPT !.NEXTEVENT =
             @ + src.INTERVAL * ((now - src.NEXTEVENT) \div src.INTERVAL + 1)]

\* Variant: the next event is counted from the time next() woke up
RescheduleFromNow(src, now) == [src EXCEPT !.NEXTEVENT = now + src.INTERVAL]

\* The reschedule of a reported source
Reschedule(src, now) == [src EXCEPT !.NEXTEVENT = @ + src.INTERVAL]

\* The source after next() has looked at it
Visit(src, trigger_time, now) ==
    IF Triggered(src, trigger_time) THEN Reschedule(src, now) ELSE src

\* The flags next() returns
Events(hb, ms, trigger_time) ==
    (IF Triggered(hb, trigger_time) THEN HEARTBEAT ELSE 0)
    + (IF Triggered(ms, trigger_time) THEN MEASUREMENT ELSE 0)

\* Variant: a new interval moves the event already scheduled
measurementMoves(ms, interval) ==
    IF interval.t = "none" THEN ms
    ELSE [INTERVAL |-> interval.i,
          NEXTEVENT |-> ms.NEXTEVENT - ms.INTERVAL + interval.i]

\* measurement(interval): the accessor; None reads, a value sets
measurement(ms, interval) ==
    IF interval.t = "none" THEN ms ELSE [ms EXCEPT !.INTERVAL = interval.i]

\* Variant: restart() leaves a source that is not yet due as scheduled
restartDueOnly(hb, ms, now) ==
    [hb |-> IF hb.NEXTEVENT > now THEN hb ELSE Scheduled(hb.INTERVAL, now),
     ms |-> IF ms.NEXTEVENT > now THEN ms ELSE Scheduled(ms.INTERVAL, now)]

\* restart()
restart(hb, ms, now) ==
    [hb |-> Scheduled(hb.INTERVAL, now), ms |-> Scheduled(ms.INTERVAL, now)]

\* The last call of the scheduler as its caller sees it, with the state
\* the call found
NoSch ==
    [op |-> "none", now |-> 0, sleep |-> 0, wake |-> 0, events |-> 0,
     arg |-> NoneV, ret |-> 0, hb |-> Scheduled(0, 0), ms |-> Scheduled(0, 0),
     last |-> [f \in {HEARTBEAT, MEASUREMENT} |-> -1], typed |-> 0]

\* The time the clock may reach in the model
MaxTime == 8

\* The longest time.sleep() may overrun the duration asked for
MaxOvershoot == 1

\* The longest one pass of the main loop may take between two next() calls
MaxStall == 4

\* The intervals the operator may enter in the interval widget
NewIntervals == {0, 1, 4}

\* next(), from its entry to the call of time.sleep()
SchedNextCall ==
    /\ spc = "idle"
    /\ \E d \in {Slept(SleepDuration(Heartbeat, Measurement, clock))} :
          /\ clock + d + MaxOvershoot <= MaxTime
          /\ sch' = [NoSch EXCEPT !.op = "next", !.now = clock, !.sleep = d,
                                  !.hb = Heartbeat, !.ms = Measurement,
                                  !.last = lastfire]
    /\ spc' = "in next"
    /\ UNCHANGED <<clock, Heartbeat, Measurement, time_window, anchor, lastfire>>
    /\ UNCHANGED <<devVars, widgetVars, keyVars>>

\* next(), from the return of time.sleep() to its own return; a sleep lasts
\* at least the duration asked for. sch.typed is the number of key presses
\* that have arrived on stdin by then.
NextReturns(over) ==
    /\ spc = "in next"
    /\ over = 0 \/ sch.sleep > 0
    /\ \E wake \in {sch.now + sch.sleep + over} :
       \E tt \in {TriggerTime(sch.now, wake, time_window)} :
       \E ev \in {Events(Heartbeat, Measurement, tt)} :
          /\ clock' = wake
          /\ Heartbeat' = Visit(Heartbeat, tt, wake)
          /\ Measurement' = Visit(Measurement, tt, wake)
          /\ sch' = [sch EXCEPT !.wake = wake, !.events = ev, !.ret = ev,
                                !.typed = stdin.typed]
          /\ anchor' = [anchor EXCEPT !.steady = @ /\ over = 0]
          /\ lastfire' = [f \in {HEARTBEAT, MEASUREMENT} |->
                            IF HasFlag(ev, f) THEN wake ELSE lastfire[f]]
    /\ spc' = "idle"
    /\ UNCHANGED time_window

SchedNextReturn(over) == NextReturns(over) /\ UNCHANGED <<devVars, widgetVars, keyVars>>

\* restart()
SchedRestart ==
    /\ spc = "idle"
    /\ \E o \in {restart(Heartbeat, Measurement, clock)} :
          /\ Heartbeat' = o.hb
          /\ Measurement' = o.ms
    /\ sch' = [NoSch EXCEPT !.op = "restart", !.now = clock, !.wake = clock,
                            !.hb = Heartbeat, !.ms = Measurement]
    /\ anchor' = [t |-> clock, steady |-> TRUE, fixed |-> TRUE]
    /\ lastfire' = [f \in {HEARTBEAT, MEASUREMENT} |-> -1]
    /\ UNCHANGED <<clock, time_window, spc, devVars, widgetVars, keyVars>>

\* measurement(interval), as the interval widget calls it on ENTER, and
\* measurement() to read
SchedMeasurement(arg) ==
    /\ spc = "idle"
    /\ Measurement' = measurement(Measurement, arg)
    /\ sch' = [NoSch EXCEPT !.op = "measurement", !.now = clock, !.wake = clock,
                            !.arg = arg, !.ret = Measurement'.INTERVAL,
                            !.hb = Heartbeat, !.ms = Measurement]
    /\ anchor' = [anchor EXCEPT !.fixed = @ /\ Measurement' = Measurement,
                                !.steady = @ /\ Measurement' = Measurement]
    /\ UNCHANGED <<clock, Heartbeat, time_window, spc, lastfire, devVars, widgetVars, keyVars>>

\* The body of the main loop between two next() calls takes time
LoopBody(d) ==
    /\ spc = "idle"
    /\ d > 0
    /\ clock + d <= MaxTime
    /\ clock' = clock + d
    /\ anchor' = [anchor EXCEPT !.steady = FALSE]
    /\ UNCHANGED <<Heartbeat, Measurement, time_window, spc, sch, lastfire>>
    /\ UNCHANGED <<devVars, widgetVars, keyVars>>

\* IntervalScheduler(heartbeat, measurement, time_window) at time now
InitScheduler(heartbeat, interval, tw, now) ==
    /\ clock = now
    /\ Heartbeat = Scheduled(heartbeat, now)
    /\ Measurement = Scheduled(interval, now)
    /\ time_window = tw
    /\ spc = "idle"
    /\ sch = [NoSch EXCEPT !.op = "init", !.now = now, !.wake = now]
    /\ anchor = [t |-> now, steady |-> TRUE, fixed |-> TRUE]
    /\ lastfire = [f \in {HEARTBEAT, MEASUREMENT} |-> -1]

--------------------------------------------------------------------------
\* KeyboardInput.py. A byte is a one-character string, or one of the names
\* below for a byte that has no character in a TLA+ string.

\* b'\x1b'
EscByte == "x1B"

\* b'\x7f'
DelByte == "x7F"

\* CSI(rest) is b'\x1b[' followed by rest, SS3(c) is b'\x1bO' followed by c
CSI(rest) == <<EscByte, "[">> \o rest

SS3(c) == <<EscByte, "O", c>>

\* The entries of translate that give a logical key a second byte sequence
Alternatives ==
    { <<CSI(<<"1", "1", "~">>), "F1">>, <<CSI(<<"1", "2", "~">>), "F2">>,
      <<CSI(<<"1", "3", "~">>), "F3">>, <<CSI(<<"1", "4", "~">>), "F4">>,
      <<SS3("A"), "UP">>, <<SS3("B"), "DOWN">>,
      <<SS3("C"), "RIGHT">>, <<SS3("D"), "LEFT">>,
      <<<<"\r">>, "ENTER">> }

\* The other entries of translate
FirstEncodings ==
    { <<<<EscByte>>, "ESC">>,
      <<SS3("P"), "F1">>, <<SS3("Q"), "F2">>, <<SS3("R"), "F3">>, <<SS3("S"), "F4">>,
      <<CSI(<<"1", "5", "~">>), "F5">>, <<CSI(<<"1", "7", "~">>), "F6">>,
      <<CSI(<<"1", "8", "~">>), "F7">>, <<CSI(<<"1", "9", "~">>), "F8">>,
      <<CSI(<<"2", "0", "~">>), "F9">>, <<CSI(<<"2", "1", "~">>), "F10">>,
      <<CSI(<<"2", "3", "~">>), "F11">>, <<CSI(<<"2", "4", "~">>), "F12">>,
      <<CSI(<<"1", "~">>), "HOME">>, <<CSI(<<"2", "~">>), "INS">>,
      <<CSI(<<"3", "~">>), "DEL">>, <<CSI(<<"4", "~">>), "END">>,
      <<CSI(<<"5", "~">>), "PAGEUP">>, <<CSI(<<"6", "~">>), "PAGEDOWN">>,
      <<CSI(<<"A">>), "UP">>, <<CSI(<<"B">>), "DOWN">>,
      <<CSI(<<"C">>), "RIGHT">>, <<CSI(<<"D">>), "LEFT">>,
      <<<<DelByte>>, "BACKSPACE">>,
      <<<<NL>>, "ENTER">>,
      <<<<"\t">>, "TAB">>,
      <<CSI(<<"Z">>), "SHIFT-TAB">> }

\* A dict of the entries
DictOf(entries) ==
    [b \in {e[1] : e \in entries} |-> (CHOOSE e \in entries : e[1] = b)[2]]

\* Variant: the table without the second byte sequences
translateFirstOnly == DictOf(FirstEncodings)

\* translate
translate == DictOf(FirstEncodings \cup Alternatives)

\* A bytes value, and None
Bytes(b) == [none |-> FALSE, b |-> b]

NoBytes == [none |-> TRUE, b |-> <<>>]

\* The size of the read that fills the chunk
ChunkSize == 5

\* raw.read(n) on the unbuffered, non-blocking stdin: up to n of the bytes
\* that are there, None if there are none, b'' at end of file
read(src, n) ==
    IF src.avail = <<>>
    THEN [data |-> IF src.eof THEN Bytes(<<>>) ELSE NoBytes, src |-> src]
    ELSE [data |-> Bytes(Take(src.avail, n)),
          src |-> [src EXCEPT !.avail = Drop(@, n)]]

\* __has_data(): select() finds stdin readable, as it is at end of file too
has_data(src) == src.avail # <<>> \/ src.eof

\* chunk[:1].decode('utf-8'), '?' for a byte that does not decode
DecodeByte(b) == IF Decodable(<<b>>) THEN b ELSE "?"

\* What a call of __next__ comes to: kind "key" with the key it returns,
\* "stop" for StopIteration, "loops" if it does not return
Step(kind, k, ch, src) == [kind |-> kind, key |-> k, chunk |-> ch, src |-> src]

\* Variant: one read of the size of a chunk instead of the loop
DrainOneRead(ch, src) == Step("stop", "", ch, read(src, ChunkSize).src)

\* The loop that reads until empty, every read taking all there is, and the
\* StopIteration after it; the loop does not end at end of file, where stdin
\* stays readable and every read returns b''
Drain(ch, src) ==
    LET Emptied(s) == Step(IF has_data(s) THEN "loops" ELSE "stop", "", ch, s)
    IN  IF has_data(src) THEN Emptied([src EXCEPT !.avail = <<>>])
        ELSE Step("stop", "", ch, src)

\* Variant: the chunk is not replenished when its last byte is taken
OneCharacterNoRead(ch, src) ==
    Step("key", IF ch.b = <<>> THEN "" ELSE DecodeByte(ch.b[1]),
         Bytes(IF ch.b = <<>> THEN <<>> ELSE Tail(ch.b)), src)

\* The branch of __next__ that returns just one character
OneCharacter(ch, src) ==
    LET Replenished(k, r) == Step("key", k, r.data, r.src)
    IN  IF Len(ch.b) > 1
        THEN Step("key", DecodeByte(ch.b[1]), Bytes(Tail(ch.b)), src)
        ELSE Replenished(IF ch.b = <<>> THEN "" ELSE DecodeByte(ch.b[1]),
                         read(src, ChunkSize))

\* __next__
next(ch, src) ==
    IF ch.none THEN Step("stop", "", ch, src)
    ELSE IF ch.b \in DOMAIN translate THEN Step("key", translate[ch.b], NoBytes, src)
    ELSE IF Take(ch.b, 1) = <<EscByte>> THEN Drain(ch, src)
    ELSE OneCharacter(ch, src)

\* The last step of the iterator with the state it found
NoKey ==
    [op |-> "none", chunk |-> NoBytes,
     src |-> [avail |-> <<>>, eof |-> FALSE, typed |-> 0],
     kind |-> "none", key |-> "", left |-> <<>>]

\* The number of key presses and terminal reports in a run of the model
MaxPresses == 3

\* What one key press, or a terminal's report, puts on stdin
KeyPresses ==
    { SS3("P"), CSI(<<"1", "1", "~">>), CSI(<<"A">>), SS3("A"), <<NL>>, <<"\r">>,
      <<EscByte>>, <<DelByte>>, <<"a">>, <<"xFF">>, <<EscByte, "Z", "Z", "Z">> }

\* The operator types, or the terminal reports
KeyPress(bs) ==
    /\ ~stdin.eof
    /\ stdin.typed < MaxPresses
    /\ stdin' = [stdin EXCEPT !.avail = @ \o bs, !.typed = @ + 1]
    /\ UNCHANGED <<chunk, kpc, kres>>
    /\ UNCHANGED <<devVars, widgetVars, schedVars>>

\* The terminal hangs up: stdin is at end of file once what waits is read
Hangup ==
    /\ ~stdin.eof
    /\ stdin' = [stdin EXCEPT !.eof = TRUE]
    /\ UNCHANGED <<chunk, kpc, kres>>
    /\ UNCHANGED <<devVars, widgetVars, schedVars>>

\* __iter__, at the start of the for loop of the main loop
KeyIter ==
    /\ kpc = "idle"
    /\ \E r \in {read(stdin, ChunkSize)} :
          /\ chunk' = r.data
          /\ stdin' = r.src
          /\ kres' = [NoKey EXCEPT !.op = "iter", !.chunk = chunk, !.src = stdin,
                                   !.left = r.src.avail]
    /\ kpc' = "for"
    /\ UNCHANGED <<devVars, widgetVars, schedVars>>

\* __next__, once per turn of the for loop
Iterate ==
    /\ kpc = "for"
    /\ \E o \in {next(chunk, stdin)} :
          /\ chunk' = o.chunk
          /\ stdin' = o.src
          /\ kpc' = CASE o.kind = "key" -> "for"
                      [] o.kind = "stop" -> "idle"
                      [] OTHER -> "loops"
          /\ kres' = [op |-> "next", chunk |-> chunk, src |-> stdin,
                      kind |-> o.kind, key |-> o.key, left |-> o.src.avail]

KeyNext == Iterate /\ UNCHANGED <<devVars, widgetVars, schedVars>>

\* KeyboardInput() on a terminal on which nothing has been typed
InitKeyboard ==
    /\ stdin = [avail |-> <<>>, eof |-> FALSE, typed |-> 0]
    /\ chunk = NoBytes
    /\ kpc = "idle"
    /\ kres = NoKey

vars ==
    <<devs, port, board, cmds, res, hist, nops, data, csv, widgets, router,
      consumers, cal, pc, exitmsg, ticks, schedVars, keyVars>>

\* The widgets as main.py constructs them against the emulator: the table
\* holds the row of its first get(), nothing is in the CSV file yet, each PWM
\* widget shows what PWMn? returned and the interval widget Config.Interval
InitWidgets ==
    /\ data = [i \in 1..TableRows |->
                 IF i < TableRows THEN NoRow
                 ELSE [time |-> 0, cmds |-> <<>>,
                       vals |-> RowOf([k \in 1..19 |->
                                  IntV(meas(99, [inbuf |-> <<>>, wire |-> <<>>],
                                            EmuMeas(<<"9", "9">>, 0),
                                            Scenario("written", "all", "none", "all", "none")
                                           ).val.l[k])])]]
    /\ csv = <<>>
    /\ widgets = [i \in 1..NumConsumers |->
                    [active |-> FALSE, buffer |-> <<>>,
                     value |-> IF i <= 4 THEN InitialPwm[i] ELSE ConfigInterval]]
    /\ router = 0
    /\ cal = [NoCal EXCEPT !.at = "done", !.n = 2, !.sent = 2]
    /\ pc = "running"
    /\ exitmsg = "Program terminated normally."
    /\ ticks = 0

\* main.py up to the loop: the widgets and the scheduler of Config
InitApp ==
    /\ InitWidgets
    /\ consumers = add(add(add(add(add(<<>>, 1), 2), 3), 4), 5)
    /\ InitScheduler(ConfigHeartbeat, ConfigInterval * 100, ConfigTimewindow, 0)
    /\ InitKeyboard

InitPort ==
    /\ port = [d \in Instances |-> [inbuf |-> <<>>, wire |-> <<>>]]
    /\ board = [d \in Instances |-> InitialPwm]
    /\ cmds = <<>>
    /\ res = NoRes
    /\ hist = <<>>
    /\ nops = 0

InitDevice ==
    /\ InitPort
    /\ InitApp

\* One Device, as main.py constructs it
Init == devs = {1} /\ InitDevice

\* Two Device instances in one process
InitTwo == devs = Instances /\ InitDevice

\* The transaction engine against a board and a line that can fail
EngineEnv == [scen |-> Scenarios, faults |-> FaultReplies, draws |-> {150}, ops |-> MaxOps]

\* The same for a set command: in time, write timeout, second line late
SetEnv ==
    [EngineEnv EXCEPT !.scen = Prompt \cup {Scenario("timeout", "none", "none", "none", "none"),
                                            Scenario("written", "line", "all", "none", "all")}]

Next ==
    \E d \in devs :
       \/ Meas(d, 0, EngineEnv)
       \/ PwmSet(d, 1, 7, SetEnv)
       \/ LateArrival(d)

Spec == Init /\ [][Next]_vars

\* Value lines no emulator sends: short, not a number, a list of three
MeasFaults ==
    { <<"7", NL>> \o OK \o <<NL>>,
      <<"a", "b", "c", "d", NL>> \o OK \o <<NL>>,
      <<"1", " ", "-", "2", " ", "x", NL>> \o OK \o <<NL>>,
      <<"1", " ", "-", "2", " ", "3", NL>> \o OK \o <<NL>> }

\* The read-only queries against the emulator and the value lines above; the
\* reply arrives in time or its first line does not
QueryEnv ==
    [scen   |-> Prompt \cup {Scenario("written", "none", "all", "none", "none")},
     faults |-> MeasFaults, draws |-> RandomDraws, ops |-> MaxOps]

NextMeas ==
    \E d \in devs :
       \/ \E n \in MeasSelectors : Meas(d, n, QueryEnv)
       \/ Version(d, QueryEnv)

SpecMeas == Init /\ [][NextMeas]_vars

\* Number of calls made on the command log in one behaviour
MaxLogOps == 4

\* A board that accepts, refuses, or answers a set with something that is no
\* number; the reply arrives in time or its first line does not
LogEnv ==
    [scen   |-> Prompt \cup {Scenario("written", "none", "all", "none", "none"),
                             Scenario("timeout", "none", "none", "none", "none")},
     faults |-> {ERROR \o <<NL>>, <<"a", "b", NL>> \o OK \o <<NL>>},
     draws  |-> {0}, ops |-> MaxLogOps]

NextLog ==
    \E d \in devs :
       \/ PwmSet(d, 1, 7, LogEnv)
       \/ PwmSet(d, 2, 999, LogEnv)
       \/ PwmGet(d, 1, LogEnv)
       \/ Commands(d, LogEnv)

SpecLog == Init /\ [][NextLog]_vars

\* Two instances, each with its own board, that answer as the emulator does
TwoEnv == [scen |-> Prompt, faults |-> {ERROR \o <<NL>>}, draws |-> {0}, ops |-> MaxLogOps]

NextTwo ==
    \E d \in devs :
       \/ PwmSet(d, 1, 7, TwoEnv)
       \/ Commands(d, TwoEnv)

SpecTwo == InitTwo /\ [][NextTwo]_vars

\* Number of passes of the main loop in one behaviour
MaxAppOps == 4

\* The program on a line that can fail, against a board that answers as the
\* emulator does, refuses, or sends a list that is too short; the operator
\* edits channel 1
AppEnv ==
    [scen   |-> Prompt \cup {Scenario("written", "none", "all", "none", "none"),
                             Scenario("written", "ioerror", "none", "none", "none"),
                             Scenario("timeout", "none", "none", "none", "none")},
     faults |-> {ERROR \o <<NL>>, <<"1", " ", "-", "2", " ", "3", NL>> \o OK \o <<NL>>},
     draws  |-> {150}, ops |-> MaxAppOps, keys |-> {"F1", "7", "ENTER", "ESC"}]

NextApp ==
    \/ MeasurementTick(AppEnv)
    \/ KeyInput(AppEnv)

SpecApp == Init /\ [][NextApp]_vars

MaxKeys == 4

MaxRegistered == 3

\* The consumer management on its own: consumers are added in any order, also
\* twice and between keys; the operator presses the triggers of three of the
\* widgets and edits; the board answers or the write times out
RouterEnv ==
    [scen   |-> Prompt \cup {Scenario("timeout", "none", "none", "none", "none")},
     faults |-> {}, draws |-> {150}, ops |-> MaxKeys,
     keys   |-> {"F1", "F2", "F9", "7", "ENTER", "ESC"}]

\* manage.add(widget)
Register(i) ==
    /\ Len(consumers) < MaxRegistered
    /\ consumers' = add(consumers, i)
    /\ res' = [NoRes EXCEPT !.op = "add", !.n = i]
    /\ UNCHANGED <<devs, port, board, cmds, hist, nops, data, csv, widgets, router,
                   cal, pc, exitmsg, ticks, schedVars, keyVars>>

InitRouter ==
    /\ devs = {1}
    /\ InitPort
    /\ InitWidgets
    /\ consumers = <<>>
    /\ InitScheduler(ConfigHeartbeat, ConfigInterval * 100, ConfigTimewindow, 0)
    /\ InitKeyboard

NextRouter ==
    \/ \E i \in {1, 2, 5} : Register(i)
    \/ KeyInput(RouterEnv)

SpecRouter == InitRouter /\ [][NextRouter]_vars

MaxEdit == 6

\* The operator at the widgets of main.py: triggers of two channels, digits,
\* a letter, and the editing keys; the board answers or the write times out
EditEnv ==
    [scen   |-> Prompt \cup {Scenario("timeout", "none", "none", "none", "none")},
     faults |-> {}, draws |-> {150}, ops |-> MaxEdit,
     keys   |-> {"F1", "F3", "0", "7", "a", "DEL", "ENTER", "ESC"}]

NextEdit == KeyInput(EditEnv)

SpecEdit == Init /\ [][NextEdit]_vars

\* Start-up: main.py up to the call of startup_screen(), which has asked for
\* the label
InitCal ==
    /\ devs = {1}
    /\ InitPort
    /\ data = [i \in 1..TableRows |-> NoRow]
    /\ csv = <<>>
    /\ widgets = [i \in 1..NumConsumers |->
                    [active |-> FALSE, buffer |-> <<>>, value |-> 0]]
    /\ router = 0
    /\ consumers = <<>>
    /\ cal = NoCal
    /\ pc = "startup"
    /\ exitmsg = "Program terminated normally."
    /\ ticks = 0
    /\ InitScheduler(ConfigHeartbeat, ConfigInterval * 100, ConfigTimewindow, 0)
    /\ InitKeyboard

NextCal ==
    \/ CalStart
    \/ \E w \in {"written", "timeout"}, script \in BoardScripts : CalWrite(w, script)
    \/ Board
    \/ CalRead
    \/ CalSleep

SpecCal == InitCal /\ [][NextCal]_vars

MaxLoopOps == 3

\* What is typed while the main loop runs: F1 in its two encodings, a digit
\* and ENTER
LoopPresses == {SS3("P"), CSI(<<"1", "1", "~">>), <<"7">>, <<NL>>}

\* The main loop against a board that answers as the emulator does
LoopEnv == [scen |-> Prompt, faults |-> {}, draws |-> {150}, ops |-> MaxLoopOps]

\* event.next() returns to the main loop
LoopReturn(over) ==
    /\ pc = "running"
    /\ NextReturns(over)
    /\ res' = [NoRes EXCEPT !.op = "next", !.n = sch'.events]
    /\ UNCHANGED <<devs, port, board, cmds, hist, nops, widgetVars, keyVars>>

\* One turn of `for key in keyboard: manage.input(key)`: __next__ returns a
\* key, which is given to the consumer management, or ends the loop
LoopKey(env) ==
    /\ pc = "running"
    /\ Iterate
    /\ IF kres'.kind = "key"
       THEN Dispatch(env, kres'.key)
       ELSE /\ res' = [NoRes EXCEPT !.op = "keys"]
            /\ UNCHANGED <<devs, port, board, cmds, hist, nops, widgetVars, schedVars>>

\* main.py with a scheduler of the shape of Config: the window as long as
\* the heartbeat, the measurement interval longer
InitLoop ==
    /\ devs = {1}
    /\ InitPort
    /\ InitWidgets
    /\ consumers = add(add(add(add(add(<<>>, 1), 2), 3), 4), 5)
    /\ InitScheduler(2, 3, 2, 0)
    /\ InitKeyboard

\* The main loop (main.py:291-297) and the operator. The loop is at its top
\* when the for loop has ended, in next() while spc = "in next", before
\* tbl.get() when next() has returned MEASUREMENT, and in the for loop from
\* __iter__ until __next__ raises StopIteration.
NextLoop ==
    \/ res.op \in {"none", "keys"} /\ pc = "running" /\ SchedNextCall
    \/ \E over \in 0..MaxOvershoot : LoopReturn(over)
    \/ res.op = "next" /\ HasFlag(sch.events, MEASUREMENT) /\ MeasurementTick(LoopEnv)
    \/ /\ pc = "running" /\ spc = "idle"
       /\ res.op = (IF HasFlag(sch.events, MEASUREMENT) THEN "tick" ELSE "next")
       /\ KeyIter
    \/ LoopKey(LoopEnv)
    \/ \E bs \in LoopPresses : KeyPress(bs)

SpecLoop == InitLoop /\ [][NextLoop]_vars

\* The scheduler on its own. The constructions are, in ticks, the shapes of
\* those in the source: the defaults (window shorter than the heartbeat),
\* main.py and the usage example (window as long as the heartbeat), and the
\* usage example of KeyboardInput.py (no window)
Constructions == {<<3, 5, 1>>, <<2, 3, 2>>, <<2, 5, 0>>}

InitSched ==
    /\ devs = {1}
    /\ InitPort
    /\ InitWidgets
    /\ consumers = <<>>
    /\ InitKeyboard
    /\ \E c \in Constructions : InitScheduler(c[1], c[2], c[3], 0)

NextSched ==
    \/ SchedNextCall
    \/ \E over \in 0..MaxOvershoot : SchedNextReturn(over)
    \/ SchedRestart
    \/ \E arg \in {NoneV} \cup {IntV(i) : i \in NewIntervals} : SchedMeasurement(arg)
    \/ \E d \in 1..MaxStall : LoopBody(d)

SpecSched == InitSched /\ [][NextSched]_vars

\* time.sleep() returns: a call of next() that has been entered goes on to
\* its return, whatever its caller does or does not do afterwards
SpecSchedLive ==
    /\ InitSched
    /\ [][NextSched]_vars
    /\ WF_vars(\E over \in 0..MaxOvershoot : SchedNextReturn(over))

\* The keyboard iterator and what arrives on stdin
NextKeys ==
    \/ \E bs \in KeyPresses : KeyPress(bs)
    \/ Hangup
    \/ KeyIter
    \/ KeyNext

SpecKeys == Init /\ [][NextKeys]_vars

\* The for loop of the main loop goes on to call __next__ until it raises
\* StopIteration
SpecKeysLive == Init /\ [][NextKeys]_vars /\ WF_vars(KeyNext)

\* ------------------------------------------------- the transaction engine

\* The last call ran a transaction
IsTransaction == res.op \in {"version", "meas", "pwmget", "pwmset"}

Terminated(line) == line # <<>> /\ line[Len(line)] = NL

TextOf(line) == Take(line, Len(line) - 1)

\* readline() returned line, and readln() returned its text
WasRead(line) == Terminated(line) /\ Decodable(TextOf(line))

\* What was buffered, in flight and sent in reply when the command was written
Stream == res.pre.inbuf \o res.pre.wire \o res.reply

\* C1: reply grammar of a transaction whose command was written. A first
\* line OK returns OK and no second line is read; a first line ERROR fails
\* with DeviceError; any other first line is the value, returned if the second
\* line is OK, and any other second line fails with ProtocolViolation. When
\* the whole reply arrives in time, the lines are the first two of the stream.
C1_ReplyGrammar ==
    (IsTransaction /\ res.c.w = "written") =>
        LET L    == res.tx.lines
            l1   == Take(Stream, FirstNL(Stream))
            rest == Drop(Stream, FirstNL(Stream))
            l2   == Take(rest, FirstNL(rest))
        IN  /\ (Len(L) >= 1 /\ WasRead(L[1])) =>
                 IF TextOf(L[1]) = OK
                 THEN res.tx.kind = "ok" /\ res.tx.val = OK /\ Len(L) = 1
                 ELSE IF TextOf(L[1]) = ERROR
                 THEN res.tx.kind = "DeviceError" /\ Len(L) = 1
                 ELSE (Len(L) = 2 /\ WasRead(L[2])) =>
                        IF TextOf(L[2]) = OK
                        THEN res.tx.kind = "ok" /\ res.tx.val = TextOf(L[1])
                        ELSE res.tx.kind = "ProtocolViolation"
            /\ (res.c \in Prompt /\ WasRead(l1)) =>
                 /\ Len(L) >= 1 /\ L[1] = l1
                 /\ (TextOf(l1) \notin {OK, ERROR} /\ WasRead(l2)) =>
                       Len(L) = 2 /\ L[2] = l2

\* A value line followed by the line ERROR was answered with ProtocolViolation
C1_Witness ==
    /\ IsTransaction
    /\ res.tx.kind = "ProtocolViolation"
    /\ Len(res.tx.lines) = 2
    /\ TextOf(res.tx.lines[2]) = ERROR

\* C2: a reply line, the first or the second, that readline() returns without
\* its newline fails the transaction with ReadTimeout, and only that does; the
\* last calls before the failure leaves are the 200 ms sleep and then
\* flushInput(), after which nothing is buffered: what arrived meanwhile is
\* discarded with the rest.
C2_ReadTimeout ==
    (IsTransaction /\ res.c.w = "written") =>
        LET L  == res.tx.lines
            tr == res.tx.tr
            l1 == Take(Stream, FirstNL(Stream))
        IN  /\ \A i \in 1..Len(L) : ~Terminated(L[i]) =>
                 /\ res.tx.kind = "ReadTimeout" /\ res.kind = "ReadTimeout"
                 /\ i = Len(L)
                 /\ Len(tr) >= 3
                 /\ SubSeq(tr, Len(tr) - 2, Len(tr)) =
                       <<Call("readline"), Sleep(200), Call("flushInput")>>
                 /\ res.tx.port.inbuf = <<>>
            /\ res.tx.kind = "ReadTimeout" => (L # <<>> /\ ~Terminated(L[Len(L)]))
            /\ (res.c.a1 = "none" /\ FirstNL(res.pre.inbuf) = 0) =>
                 /\ res.tx.kind = "ReadTimeout" /\ Len(L) = 1
                 /\ res.c.s1 = "all" => res.tx.port = [inbuf |-> <<>>, wire |-> <<>>]
            /\ (/\ res.c.a1 = "line" /\ res.c.a2 = "none" /\ res.pre.inbuf = <<>>
                /\ WasRead(l1) /\ TextOf(l1) \notin {OK, ERROR}) =>
                 /\ res.tx.kind = "ReadTimeout" /\ Len(L) = 2
                 /\ res.c.s2 = "all" => res.tx.port = [inbuf |-> <<>>, wire |-> <<>>]

\* The second line timed out, and the bytes that arrived during the grace
\* period were discarded
C2_Witness ==
    /\ IsTransaction
    /\ res.tx.kind = "ReadTimeout"
    /\ Len(res.tx.lines) = 2
    /\ res.c.s2 = "all"
    /\ Len(Stream) > Len(res.tx.lines[1]) + Len(res.tx.lines[2])
    /\ res.tx.port = [inbuf |-> <<>>, wire |-> <<>>]

\* The failure kind of the taxonomy for a write that timed out
WriteTimeout == "SerialTimeoutException"

\* C3: when the write times out the transaction fails with WriteTimeout, the
\* write is not retried and no reply is read.
C3_WriteTimeout ==
    (IsTransaction /\ res.c.w = "timeout") =>
        /\ res.kind = WriteTimeout
        /\ res.tx.tr = <<Call("write")>>
        /\ res.tx.lines = <<>>

\* What does hold of a write that timed out: one write, no read, NameError
C3_WriteTimeoutObserved ==
    (IsTransaction /\ res.c.w = "timeout") =>
        /\ res.kind = "NameError"
        /\ res.tx.tr = <<Call("write")>>
        /\ res.tx.lines = <<>>

\* ------------------------------------------------------------ measurements

\* The selectors of the decode table
DecodeTable == (0..6) \cup (10..18) \cup {99}

\* C9: the result of a measurement whose transaction returned the value v:
\* for selectors 0-3 the integer parsed from the first 3 characters of v, for
\* 4, 5 and 18 from the first 4, for 6 and 10-17 from the first 2, and for 99
\* the list of the whitespace-separated tokens of v parsed as integers, in
\* their order. A part that is no integer leaves as int()'s ValueError.
C9_SelectorDecoding ==
    (res.op = "meas" /\ res.tx.kind = "ok" /\ res.n \in DecodeTable) =>
        LET v    == res.tx.val
            w    == IF res.n \in 0..3 THEN 3
                    ELSE IF res.n \in {4, 5, 18} THEN 4
                    ELSE 2
            toks == PySplit(v)
        IN  IF res.n # 99
            THEN IF PyInt(Take(v, w)).ok
                 THEN res.kind = "ok" /\ res.val = IntV(PyInt(Take(v, w)).val)
                 ELSE res.kind = "IntValueError"
            ELSE IF \A i \in 1..Len(toks) : PyInt(toks[i]).ok
                 THEN /\ res.kind = "ok" /\ res.val.t = "list"
                      /\ Len(res.val.l) = Len(toks)
                      /\ \A i \in 1..Len(toks) : res.val.l[i] = PyInt(toks[i]).val
                 ELSE res.kind = "IntValueError"

\* The emulator's reply to MEAS99? decoded to its 19 integers, a negative
\* current among them
C9_Witness ==
    /\ res.op = "meas" /\ res.n = 99 /\ res.kind = "ok"
    /\ res.reply = EmuMeas(<<"9", "9">>, 12345)
    /\ Len(res.val.l) = 19
    /\ res.val.l[7] = 0 - 92
    /\ res.val.l[19] = 12345 % 3401

\* The marker returned for a selector outside the table
Marker(n) == StrV(<<"n", "=">> \o PyFmt(n, 2))

\* C10 as stated: a measurement with a selector outside the decode table does
\* not fail; it is logged and the marker is returned.
C10_UnknownSelectorNeverFails ==
    (res.op = "meas" /\ res.n \notin DecodeTable) =>
        res.kind = "ok" /\ res.val = Marker(res.n) /\ res.logged

\* C10: a measurement with a selector outside the decode table returns the
\* marker, and is logged, when its transaction returns a value; a transaction
\* that fails, as the emulator's ERROR makes it fail, fails the measurement
\* with the same kind and nothing is logged.
C10_UnknownSelector ==
    (res.op = "meas" /\ res.n \notin DecodeTable) =>
        /\ res.tx.kind = "ok" => (res.kind = "ok" /\ res.val = Marker(res.n) /\ res.logged)
        /\ res.tx.kind # "ok" => (res.kind = res.tx.kind /\ ~res.logged)
        /\ (res.c \in Prompt /\ res.pre = [inbuf |-> <<>>, wire |-> <<>>]
              /\ res.reply = EmuMeas(Slice(res.cmd, 4, 6), 0)) =>
                 res.kind = "DeviceError"

\* Selector 7 answered with a value: the marker n=07 came back
C10_Witness ==
    /\ res.op = "meas" /\ res.n = 7
    /\ res.tx.kind = "ok"
    /\ res.val = StrV(<<"n", "=", "0", "7">>)

\* ------------------------------------------------------------ command log

\* The set commands of the instances in ds that returned a reply, in
\* hist[from..to]
RECURSIVE SetsIn(_, _, _)
SetsIn(ds, from, to) ==
    IF from > to THEN <<>>
    ELSE IF hist[to].e = "set" /\ hist[to].d \in ds
    THEN Append(SetsIn(ds, from, to - 1), hist[to].s)
    ELSE SetsIn(ds, from, to - 1)

\* Index in hist of the last drain before position i that the instances in ds
\* made, 0 if there is none
LastDrain(ds, i) ==
    LET at == {j \in 1..(i - 1) : hist[j].e = "drain" /\ hist[j].d \in ds}
    IN  IF at = {} THEN 0 ELSE CHOOSE j \in at : \A k \in at : k <= j

\* The commands, each with its newline turned into a space, separated by commas
RECURSIVE Delimited(_)
Delimited(list) ==
    IF list = <<>> THEN <<>>
    ELSE LET c    == list[Len(list)]
             item == SubSeq(c, 1, Len(c) - 1) \o <<" ">>
         IN  IF Len(list) = 1 THEN item
             ELSE Delimited(SubSeq(list, 1, Len(list) - 1)) \o <<",">> \o item

\* C4: with one instance, the log holds exactly the set commands that returned
\* a reply (value and OK) since the last drain, in the order they were issued;
\* a query or a set that failed adds nothing.
C4_LogHoldsAccepted ==
    cmds = SetsIn({1}, LastDrain({1}, Len(hist) + 1) + 1, Len(hist))

\* Two accepted sets are in the log, in order, after an earlier one was drained
C4_Witness ==
    /\ Len(cmds) = 2
    /\ cmds[1] = PwmSetCmd(2, 999) /\ cmds[2] = PwmSetCmd(1, 7)
    /\ res.op = "pwmset" /\ res.kind = "ok"
    /\ nops = 4

\* C5: with one instance, every drain returns the set commands accepted since
\* the previous drain, in order, as one comma-separated string, and leaves the
\* log empty: a drain right after a drain returns the empty string, and every
\* accepted command is in exactly one drain's result.
C5_DrainExactlyOnce ==
    /\ \A i \in 1..Len(hist) : hist[i].e = "drain" =>
          hist[i].s = Delimited(SetsIn({1}, LastDrain({1}, i) + 1, i - 1))
    /\ \A i \in 1..(Len(hist) - 1) :
          (hist[i].e = "drain" /\ hist[i + 1].e = "drain") => hist[i + 1].s = <<>>
    /\ res.op = "commands" =>
          /\ cmds = <<>>
          /\ hist # <<>> /\ hist[Len(hist)].e = "drain"
          /\ res.val = StrV(hist[Len(hist)].s)

\* A drain returned two commands as one string, and the drain after it nothing
C5_Witness ==
    /\ Len(hist) = 4
    /\ hist[3].e = "drain"
    /\ hist[3].s = <<"P", "W", "M", "1", "S", "0", "0", "7", " ", ",",
                     "P", "W", "M", "2", "S", "9", "9", "9", " ">>
    /\ hist[4].e = "drain" /\ hist[4].s = <<>>
    /\ res.op = "commands" /\ res.val = StrV(<<>>)

\* C6: with two instances, what an instance finds in its log are its own
\* accepted set commands since its own last drain and nothing of the other's,
\* and what its drain returns are those.
C6_LogPerInstance ==
    /\ \A d \in devs : cmds = SetsIn({d}, LastDrain({d}, Len(hist) + 1) + 1, Len(hist))
    /\ \A i \in 1..Len(hist) : hist[i].e = "drain" =>
          hist[i].s = Delimited(SetsIn({hist[i].d}, LastDrain({hist[i].d}, i) + 1, i - 1))

\* What the two instances do share: the one list of the class, which holds
\* the accepted sets of both since the last drain by either
C6_LogSharedObserved ==
    cmds = SetsIn(devs, LastDrain(devs, Len(hist) + 1) + 1, Len(hist))

\* ------------------------------------------------------------ error policy

\* The 14 displayed values of the sentinel row
ErrVals == [i \in 1..14 |-> StrV(<<"E", "R", "R">>)]

\* The measurement query of the last tick failed by a read timeout or by the
\* transport: the write timed out, or the port raised SerialException
PollingFailure ==
    /\ res.op = "tick"
    /\ \/ res.tx.kind = "ReadTimeout"
       \/ res.tx.kind = "SerialException"
       \/ res.c.w = "timeout"

\* C7: when the measurement query of a tick fails by a read timeout or a
\* transport error, the table gets the sentinel row of that tick and the main
\* loop goes on.
C7_PollingSentinel ==
    PollingFailure =>
        /\ pc = "running"
        /\ data[TableRows].time = ticks
        /\ data[TableRows].vals = ErrVals
        /\ Len(csv) = ticks

\* What holds on the polling path: a failure that is a ValueError (read
\* timeout, ERROR, bad framing, undecodable or unparsable value) gives the
\* sentinel row; any other exception leaves the loop, no row is added and the
\* program exits with the abnormal termination message
C7_PollingObserved ==
    (res.op = "tick" /\ res.tx.kind # "ok") =>
        IF IsValueError(res.tx.kind)
        THEN /\ pc = "running"
             /\ data[TableRows].time = ticks
             /\ data[TableRows].vals = ErrVals
             /\ csv # <<>> /\ csv[Len(csv)] = data[TableRows]
        ELSE /\ pc = "exited" /\ exitmsg = Abnormal
             /\ res.kind = res.tx.kind
             /\ data[TableRows].time # ticks
             /\ Len(csv) < ticks

\* The last key made a PWM widget send a set command whose transaction failed
CommandFailure ==
    /\ res.op = "key"
    /\ res.cmd # <<>>
    /\ res.tx.kind \notin {"ok", "none"}

\* C8: a set command of the operator whose transaction fails ends the main
\* loop: the failure reaches the top level, which reports it at exit.
C8_CommandFailurePropagates ==
    CommandFailure => (pc = "exited" /\ exitmsg = Abnormal)

\* What holds on the command path: the failure stays in __set, the loop goes
\* on, the widget keeps its value and the edit session is over
C8_CommandFailureObserved ==
    CommandFailure =>
        /\ pc = "running" /\ exitmsg # Abnormal
        /\ res.kind = "ok"
        /\ router = 0
        /\ \A i \in 1..NumConsumers : ~widgets[i].active /\ widgets[i].buffer = <<>>
        /\ widgets[1].value = InitialPwm[1]

\* ---------------------------------------------------------------- scheduler

\* next() has returned
NextReturned == sch.op = "next" /\ spc = "idle"

\* The source behind an event flag as the last call found it and as it is now
Before(flag) == IF flag = HEARTBEAT THEN sch.hb ELSE sch.ms

Now(flag) == IF flag = HEARTBEAT THEN Heartbeat ELSE Measurement

EventFlags == {HEARTBEAT, MEASUREMENT}

\* The earliest next-fire-time the last call found
Earliest == MinOf(sch.hb.NEXTEVENT, sch.ms.NEXTEVENT)

\* C11: next() sleeps max(0, earliest next-fire-time - now) and then, with
\* trigger_time = wake time + time_window, reports exactly the sources whose
\* next-fire-time is before trigger_time and reschedules exactly those, each
\* by its interval.
C11_NextReportsDue ==
    NextReturned =>
        /\ sch.sleep = (IF Earliest > sch.now THEN Earliest - sch.now ELSE 0)
        /\ sch.wake >= sch.now + sch.sleep
        /\ \A f \in EventFlags :
              /\ HasFlag(sch.events, f) <=>
                    Before(f).NEXTEVENT < sch.wake + time_window
              /\ Now(f).NEXTEVENT =
                    IF HasFlag(sch.events, f)
                    THEN Before(f).NEXTEVENT + Before(f).INTERVAL
                    ELSE Before(f).NEXTEVENT

\* What does hold of next(): the window is counted from the time of the call,
\* so that a call that slept for time_window or longer returns no event and
\* the source it slept for is reported by the next call, which does not sleep
C11_NextObserved ==
    NextReturned =>
        /\ sch.sleep = (IF Earliest > sch.now THEN Earliest - sch.now ELSE 0)
        /\ \A f \in EventFlags :
              /\ HasFlag(sch.events, f) <=>
                    Before(f).NEXTEVENT < sch.now + time_window
              /\ Now(f).NEXTEVENT =
                    IF HasFlag(sch.events, f)
                    THEN Before(f).NEXTEVENT + Before(f).INTERVAL
                    ELSE Before(f).NEXTEVENT
        /\ (sch.sleep > 0 /\ sch.sleep >= time_window) =>
              /\ sch.events = 0
              /\ \E f \in EventFlags : Now(f).NEXTEVENT <= clock

\* Since construction or the last restart() the intervals are the same, every
\* sleep ended on time and the caller called next() again at once: the runs on
\* a deterministic clock with fixed intervals
Steady == anchor.steady

\* C12: on a deterministic clock with fixed intervals, when next() returns
\* every source has fired once for each of its intervals that has elapsed, so
\* none is left due, and none has fired for an interval that is more than
\* time_window ahead (an interval of 0 aside); sources whose next-fire-times
\* lie within time_window of each other are reported by the same call.
C12_OncePerInterval ==
    NextReturned =>
        /\ Steady =>
              \A f \in {g \in EventFlags : Now(g).INTERVAL > 0} :
                 /\ Now(f).NEXTEVENT > clock
                 /\ Now(f).NEXTEVENT - Now(f).INTERVAL > anchor.t =>
                       Now(f).NEXTEVENT - Now(f).INTERVAL < clock + time_window
        /\ \A f, g \in EventFlags :
              (/\ HasFlag(sch.events, f)
               /\ Before(g).NEXTEVENT - Before(f).NEXTEVENT < time_window
               /\ Before(f).NEXTEVENT - Before(g).NEXTEVENT < time_window) =>
                 HasFlag(sch.events, g)

\* What does hold on such a clock: a source left due by a call that slept is
\* reported by the call after it, so that after every second call none is due
C12_OncePerIntervalObserved ==
    (NextReturned /\ Steady /\ time_window > 0) =>
        \A f \in {g \in EventFlags : Now(g).INTERVAL > 0} :
           Now(f).NEXTEVENT <= clock => (sch.sleep > 0 /\ sch.events = 0)

\* C13: a source is never reported more than time_window before its
\* next-fire-time: when next() returns a source, the time of the return is
\* later than the source's next-fire-time minus time_window.
C13_NotTooEarly ==
    NextReturned =>
        \A f \in EventFlags :
           HasFlag(sch.events, f) => sch.wake > Before(f).NEXTEVENT - time_window

\* A source was reported ahead of its next-fire-time, by less than time_window
C13_Witness ==
    /\ NextReturned
    /\ HasFlag(sch.events, MEASUREMENT)
    /\ sch.wake < sch.ms.NEXTEVENT
    /\ sch.ms.NEXTEVENT - sch.wake = time_window - 1

\* src is on the grid of its interval, counted from the construction or the
\* last restart()
OnGrid(src) ==
    IF src.INTERVAL = 0 THEN src.NEXTEVENT = anchor.t
    ELSE /\ src.NEXTEVENT > anchor.t
         /\ (src.NEXTEVENT - anchor.t) % src.INTERVAL = 0

\* C14: a firing advances the next-fire-time of the source by exactly its
\* interval from the value it had, whatever the time next() woke up; with an
\* interval that has not changed since construction or the last restart(),
\* the next-fire-time is that time plus a positive whole multiple of the
\* interval, however late next() is called.
C14_OwnCadence ==
    /\ NextReturned =>
          \A f \in EventFlags :
             HasFlag(sch.events, f) =>
                Now(f).NEXTEVENT = Before(f).NEXTEVENT + Before(f).INTERVAL
    /\ OnGrid(Heartbeat)
    /\ anchor.fixed => OnGrid(Measurement)

\* next() was called more than an interval late and the heartbeat went from
\* its first to its second grid point, which is already past
C14_Witness ==
    /\ NextReturned
    /\ HasFlag(sch.events, HEARTBEAT)
    /\ sch.now > sch.hb.NEXTEVENT + sch.hb.INTERVAL
    /\ Heartbeat.NEXTEVENT = anchor.t + 2 * Heartbeat.INTERVAL
    /\ Heartbeat.NEXTEVENT < clock

\* What the last call of the accessor did, and the interval a reschedule of
\* the measurement source added
AccessorEffect ==
    /\ sch.op = "measurement" =>
          /\ Heartbeat = sch.hb
          /\ Measurement.NEXTEVENT = sch.ms.NEXTEVENT
          /\ sch.ret = Measurement.INTERVAL
          /\ IF sch.arg.t = "none"
             THEN Measurement.INTERVAL = sch.ms.INTERVAL
             ELSE Measurement.INTERVAL = sch.arg.i
    /\ (NextReturned /\ HasFlag(sch.events, MEASUREMENT)) =>
          Measurement.NEXTEVENT = sch.ms.NEXTEVENT + Measurement.INTERVAL

\* A step that changes an interval is a measurement(interval) that sets it
IntervalSetOnly ==
    /\ Measurement'.INTERVAL # Measurement.INTERVAL =>
          (sch'.op = "measurement" /\ sch'.arg = IntV(Measurement'.INTERVAL))
    /\ Heartbeat'.INTERVAL = Heartbeat.INTERVAL

\* C15: measurement(interval) leaves the next-fire-time of every source as it
\* was and returns the interval it set; measurement() returns the interval
\* and changes nothing; the interval changes by no other call, so that what
\* is read is the last value set; and a reschedule of the measurement source
\* adds the interval last set.
C15_IntervalAccessor == []AccessorEffect /\ [][IntervalSetOnly]_vars

\* The measurement source, scheduled with the interval of the construction,
\* fired after the interval was set to 4 and was rescheduled 4 later
C15_Witness ==
    /\ NextReturned
    /\ HasFlag(sch.events, MEASUREMENT)
    /\ anchor.t = 0 /\ ~anchor.fixed
    /\ sch.ms.NEXTEVENT \in {c[2] : c \in Constructions}
    /\ Measurement.INTERVAL = 4
    /\ Measurement.NEXTEVENT = sch.ms.NEXTEVENT + 4

\* C16: after construction the next-fire-time of every source is the time of
\* the construction plus its interval, and after restart() it is the time of
\* the call plus the interval the source has then, whatever was scheduled
\* before; restart() changes no interval.
C16_ConstructAndRestart ==
    /\ sch.op = "init" =>
          /\ \E c \in Constructions :
                /\ Heartbeat = [INTERVAL |-> c[1], NEXTEVENT |-> sch.now + c[1]]
                /\ Measurement = [INTERVAL |-> c[2], NEXTEVENT |-> sch.now + c[2]]
                /\ time_window = c[3]
    /\ sch.op = "restart" =>
          /\ Heartbeat = [INTERVAL |-> sch.hb.INTERVAL,
                          NEXTEVENT |-> sch.now + sch.hb.INTERVAL]
          /\ Measurement = [INTERVAL |-> sch.ms.INTERVAL,
                            NEXTEVENT |-> sch.now + sch.ms.INTERVAL]

\* restart() found the heartbeat overdue and the measurement source
\* scheduled further ahead than the interval it had been set to since
C16_Witness ==
    /\ sch.op = "restart"
    /\ sch.now > 0
    /\ sch.hb.NEXTEVENT < sch.now
    /\ sch.ms.INTERVAL = 1
    /\ sch.ms.NEXTEVENT > sch.now + 1
    /\ Measurement.NEXTEVENT = sch.now + 1

\* The sleep of the call of next() under way ends no later than the earliest
\* next-fire-time, or is no sleep at all
BoundedSleep ==
    spc = "in next" =>
        /\ sch.sleep >= 0
        /\ sch.sleep > 0 => sch.now + sch.sleep = Earliest

\* C17: next() never blocks indefinitely. The duration it sleeps is computed
\* and bounded, ending at the earliest next-fire-time, and every call that
\* is entered returns, at a time at which the earliest source is due.
C17_NextReturns ==
    /\ []BoundedSleep
    /\ [](NextReturned => sch.wake >= Earliest)
    /\ (spc = "in next") ~> NextReturned

\* next() slept until the interval of the heartbeat was over and returned
C17_Witness ==
    /\ NextReturned
    /\ sch.sleep = sch.hb.INTERVAL
    /\ sch.sleep > 0
    /\ sch.wake = sch.hb.NEXTEVENT

\* C18 as stated: the ticks missed in a stall are not delivered as a burst. A
\* report advances the source by one interval, and a report of a tick that
\* was already past when next() was called does not come at the time of the
\* report before it.
C18_NoCatchUpBurst ==
    NextReturned =>
        \A f \in EventFlags :
           (HasFlag(sch.events, f) /\ Before(f).INTERVAL > 0) =>
              /\ Now(f).NEXTEVENT = Before(f).NEXTEVENT + Before(f).INTERVAL
              /\ Before(f).NEXTEVENT < sch.now => sch.wake > sch.last[f]

\* C18: after a stall each report advances the source by exactly one
\* interval, and a call of next() that finds the next-fire-time of a source
\* already past does not sleep and reports it: the ticks missed are
\* delivered one per call, by calls that return at once, and none is dropped.
C18_CatchUpOnePerCall ==
    NextReturned =>
        \A f \in EventFlags :
           /\ HasFlag(sch.events, f) =>
                 Now(f).NEXTEVENT = Before(f).NEXTEVENT + Before(f).INTERVAL
           /\ Before(f).NEXTEVENT < sch.now =>
                 /\ sch.sleep = 0 /\ sch.wake = sch.now
                 /\ HasFlag(sch.events, f)

\* After a stall of two intervals the heartbeat was reported twice at the
\* same time, and is still to be reported for a tick that has passed
C18_Witness ==
    /\ NextReturned
    /\ HasFlag(sch.events, HEARTBEAT)
    /\ sch.last[HEARTBEAT] = sch.wake
    /\ sch.hb.NEXTEVENT < sch.now
    /\ Heartbeat.NEXTEVENT = sch.hb.NEXTEVENT + sch.hb.INTERVAL
    /\ Heartbeat.NEXTEVENT < clock

\* ---------------------------------------------------------------- keyboard

\* __next__ was called with bytes in the chunk
Decoding == kres.op = "next" /\ ~kres.chunk.none

\* The byte sequences of the table
Sequences == {e[1] : e \in FirstEncodings \cup Alternatives}

\* C19: when the chunk is exactly a byte sequence of the table, __next__
\* returns the token of that entry and the chunk is consumed, nothing more
\* being read; the two byte sequences of one logical key give the same
\* token: ESC O P and ESC [ 1 1 ~ give F1, ESC [ A and ESC O A give UP, LF
\* and CR give ENTER.
C19_ExactMatch ==
    Decoding =>
        /\ \A e \in FirstEncodings \cup Alternatives :
              kres.chunk.b = e[1] =>
                 /\ kres.kind = "key" /\ kres.key = e[2]
                 /\ chunk = NoBytes
                 /\ kres.left = kres.src.avail
        /\ kres.chunk.b \in {<<EscByte, "O", "P">>, <<EscByte, "[", "1", "1", "~">>} =>
              kres.key = "F1"
        /\ kres.chunk.b \in {<<EscByte, "[", "A">>, <<EscByte, "O", "A">>} =>
              kres.key = "UP"
        /\ kres.chunk.b \in {<<"\n">>, <<"\r">>} => kres.key = "ENTER"

\* F1 came from the byte sequence ESC [ 1 1 ~
C19_Witness ==
    /\ Decoding
    /\ kres.chunk.b = <<EscByte, "[", "1", "1", "~">>
    /\ kres.key = "F1"
    /\ chunk = NoBytes

\* C20: when the chunk is no byte sequence of the table and starts with the
\* escape byte, __next__ returns no token and raises nothing but the
\* StopIteration that ends the for loop, and no byte is left on stdin: what
\* was there when it was called is read and discarded.
C20_UnrecognizedEscape ==
    (Decoding /\ kres.chunk.b \notin Sequences /\ Take(kres.chunk.b, 1) = <<EscByte>>) =>
        /\ kres.kind # "key"
        /\ kres.left = <<>>
        /\ ~kres.src.eof => (kres.kind = "stop" /\ kpc = "idle")

\* ESC Z Z Z came with the first byte of the next key press in one chunk,
\* and the rest of that key press was discarded with it
C20_Witness ==
    /\ Decoding
    /\ kres.chunk.b = <<EscByte, "Z", "Z", "Z", EscByte>>
    /\ kres.src.avail = <<"[", "1", "1", "~">>
    /\ kres.kind = "stop"
    /\ stdin.avail = <<>>

\* The chunk holds bytes, is no byte sequence of the table and does not start
\* with the escape byte
SingleByte ==
    /\ Decoding
    /\ kres.chunk.b # <<>>
    /\ kres.chunk.b \notin Sequences
    /\ kres.chunk.b[1] # EscByte

\* C21: when the chunk holds bytes, matches no table entry and does not start
\* with the escape byte, __next__ returns its first byte as a one-character
\* token, '?' for a byte that is no valid text; the bytes after it stay in the
\* chunk in their order and nothing is read; if none is left the chunk is
\* replenished by a read of up to 5 bytes of what waits on stdin.
C21_SingleByte ==
    SingleByte =>
        /\ kres.kind = "key"
        /\ kres.key = (IF kres.chunk.b[1] = "xFF" THEN "?" ELSE kres.chunk.b[1])
        /\ IF Len(kres.chunk.b) > 1
           THEN /\ chunk = [none |-> FALSE, b |-> Tail(kres.chunk.b)]
                /\ kres.left = kres.src.avail
           ELSE IF kres.src.avail # <<>>
           THEN /\ chunk = [none |-> FALSE, b |-> Take(kres.src.avail, 5)]
                /\ kres.left = Drop(kres.src.avail, 5)
           ELSE /\ chunk.b = <<>> /\ (chunk.none <=> ~kres.src.eof)
                /\ kres.left = <<>>

\* A byte that is no valid text was returned as '?', and the chunk was
\* replenished with the key press that waited on stdin
C21_Witness ==
    /\ SingleByte
    /\ kres.chunk.b = <<"xFF">>
    /\ kres.key = "?"
    /\ kres.src.avail = <<EscByte, "[", "A">>
    /\ chunk = [none |-> FALSE, b |-> <<EscByte, "[", "A">>]

\* C22: every run of the for loop over the keyboard ends after finitely many
\* tokens, whatever stdin holds: no call of __next__ fails to return, a loop
\* started with nothing to read ends at once without a token, a token is
\* returned only for bytes taken from the chunk, and the loop once entered
\* is left.
C22_DecoderTerminates ==
    /\ [](kpc # "loops")
    /\ []((kres.op = "next" /\ kres.chunk.b = <<>>) =>
             (kres.kind = "stop" /\ kres.left = kres.src.avail))
    /\ (kpc = "for") ~> (kpc = "idle")

\* What does hold: while stdin is not at end of file a chunk without bytes
\* is None and ends the loop, every token takes a byte, and the loop is left
C22_TerminatesWhileOpen ==
    /\ [](~stdin.eof => kpc # "loops")
    /\ []((kres.op = "next" /\ kres.chunk.b = <<>> /\ ~kres.src.eof) =>
             (kres.chunk.none /\ kres.kind = "stop"))
    /\ [](kres.kind = "key" => (kres.chunk.b # <<>> \/ kres.src.eof))
    /\ (kpc = "for" /\ ~stdin.eof) ~> (kpc = "idle" \/ stdin.eof)

--------------------------------------------------------------------------
\* The consumer management

Dispatched == res.op = "key"

\* The consumers that are active
Active == {i \in 1..NumConsumers : widgets[i].active}

\* A key is dispatched while no consumer is the active one
OfferStep ==
    (res'.op = "key" /\ nops' = nops + 1 /\ router = 0) =>
        LET seen == res'.seen
            n    == Len(seen)
        IN  /\ seen = Take(consumers, n)
            /\ \A k \in 1..(n - 1) : ~widgets'[seen[k]].active
            /\ IF n > 0 /\ widgets'[seen[n]].active
               THEN router' = seen[n]
               ELSE router' = 0 /\ n = Len(consumers)
            /\ \A i \in 1..NumConsumers :
                  (\A k \in 1..n : seen[k] # i) => widgets'[i] = widgets[i]

\* C23: a key dispatched while there is no active consumer is offered to the
\* consumers in the order they were registered; the first that reports
\* itself active becomes the active consumer, and no consumer after it is
\* offered this key. If none does, all have been offered the key and there
\* is still no active consumer.
C23_OfferInOrder == [][OfferStep]_vars

C23_Witness ==
    /\ Dispatched
    /\ res.key = "F2"
    /\ consumers = <<1, 2, 5>>
    /\ res.seen = <<1, 2>>
    /\ router = 2
    /\ Active = {2}

\* A key is dispatched while there is an active consumer
ActiveStep ==
    (res'.op = "key" /\ nops' = nops + 1 /\ router # 0) =>
        /\ res'.seen = <<router>>
        /\ router' = (IF widgets'[router].active THEN router ELSE 0)
        /\ \A i \in 1..NumConsumers : i # router => widgets'[i] = widgets[i]

\* The key after the one on which the active consumer gave up the slot
ReofferStep ==
    (res'.op = "key" /\ nops' = nops + 1 /\ res.op = "key" /\ res.act # 0 /\ router = 0) =>
        LET n == Len(res'.seen)
        IN  /\ n > 0
            /\ res'.seen = Take(consumers, n)
            /\ n = Len(consumers) \/ widgets'[res'.seen[n]].active

\* C24: while there is an active consumer every key is given to it and to no
\* other consumer; it stays the active consumer as long as it reports itself
\* active, and when it reports that it no longer is, there is no active
\* consumer and the next key is offered to the consumers from the first on.
C24_ActiveGetsAll == [][ActiveStep]_vars /\ [][ReofferStep]_vars

C24_Witness ==
    /\ Dispatched
    /\ res.act = 1
    /\ res.key = "ENTER"
    /\ res.seen = <<1>>
    /\ router = 0
    /\ widgets[1].value = 7
    /\ consumers = <<2, 1>>

\* The consumers that have been registered
Registered == {consumers[k] : k \in 1..Len(consumers)}

\* C25: whatever consumers have been registered and whatever keys have been
\* dispatched, at most one registered consumer is active.
C25_OneActive == Cardinality(Active \cap Registered) <= 1

\* The trigger of a second consumer is pressed while the first is active
C25_Witness ==
    /\ Dispatched
    /\ res.key = "F2"
    /\ res.act = 1
    /\ {1, 2} \subseteq Registered
    /\ Active = {1}

--------------------------------------------------------------------------
\* The PWM widgets

PwmChannels == 1..4

\* PWMnSxxx with n a channel and xxx three digits, as a line
SetForm(cmd) ==
    /\ Len(cmd) = 9
    /\ SubSeq(cmd, 1, 3) = <<"P", "W", "M">>
    /\ \E n \in PwmChannels : <<cmd[4]>> = PyStr(n)
    /\ cmd[5] = "S"
    /\ \A k \in 6..8 : IsDigit(cmd[k])
    /\ cmd[9] = NL

\* C28: whatever keys are typed, the edit buffer of a PWM widget holds digits
\* only and at most three of them, and every command a key makes the widget
\* write is PWMnSxxx for its channel n in 1..4 with xxx the buffered number
\* in three zero-padded digits.
C28_SetCommandForm ==
    /\ \A i \in PwmChannels :
          /\ Len(widgets[i].buffer) <= 3
          /\ \A k \in 1..Len(widgets[i].buffer) : IsDigit(widgets[i].buffer[k])
    /\ (Dispatched /\ res.cmd # <<>>) =>
          /\ SetForm(res.cmd)
          /\ res.act \in PwmChannels
          /\ <<res.cmd[4]>> = PyStr(res.act)
          /\ DigitsValue(SubSeq(res.cmd, 6, 8)) \in 0..999

C28_Witness ==
    /\ Dispatched
    /\ res.key = "ENTER"
    /\ res.cmd = <<"P", "W", "M", "3", "S", "0", "7", "0", NL>>
    /\ res.tx.kind = "ok"
    /\ widgets[3].value = 70

\* The key neither wrote a command nor changed the board or the list of
\* commands
Silent == res'.cmd = <<>> /\ cmds' = cmds /\ board' = board /\ port' = port

\* The edit session of consumer i is over
Ended(i) == router' = 0 /\ ~widgets'[i].active

\* A key is dispatched to the PWM widget that is the active consumer
EditStep ==
    (res'.op = "key" /\ nops' = nops + 1 /\ router \in PwmChannels) =>
        LET i   == router
            buf == widgets[router].buffer
            k   == res'.key
        IN  IF k \in {"ESC", Trigger(i)} \/ (k = "ENTER" /\ buf = <<>>)
            THEN Silent /\ Ended(i)
            ELSE IF k = "ENTER"
            THEN /\ res'.cmd = <<"P", "W", "M">> \o PyStr(i) \o <<"S">>
                                 \o PyFmt(DigitsValue(buf), 3) \o <<NL>>
                 /\ Len(cmds') <= Len(cmds) + 1
                 /\ Ended(i)
            ELSE Silent /\ router' = i /\ widgets'[i].active

\* C29: while a PWM widget is the active consumer, ESC and its trigger end
\* the session without a command, ENTER on an empty buffer ends it without a
\* command, ENTER on a buffer that holds digits writes one set command with
\* the buffered number and ends it, and any other key writes nothing and
\* leaves the widget the active consumer.
C29_EditSession == [][EditStep]_vars

C29_Witness ==
    /\ Dispatched
    /\ res.key = "ENTER"
    /\ res.act = 1
    /\ res.cmd = <<"P", "W", "M", "1", "S", "0", "0", "7", NL>>
    /\ router = 0
    /\ Active = {}
    /\ cmds = <<res.cmd>>

--------------------------------------------------------------------------
\* The main loop

\* next() is called
CallsNext == spc = "idle" /\ spc' = "in next"

\* Nothing has been typed since next() last returned
NothingSinceWake == sch.op = "next" /\ stdin.typed = sch.typed

\* next() is called when the for loop over the keyboard has ended; a wake
\* with MEASUREMENT runs tbl.get() once, before the for loop; every key the
\* decoder returns is given to the consumer management
LoopOrder ==
    /\ CallsNext => res.op \in {"none", "keys"} /\ kpc = "idle"
    /\ ticks' # ticks =>
          /\ ticks' = ticks + 1
          /\ res.op = "next" /\ HasFlag(sch.events, MEASUREMENT) /\ kpc = "idle"
    /\ (kpc = "idle" /\ kpc' = "for") =>
          res.op = (IF HasFlag(sch.events, MEASUREMENT) THEN "tick" ELSE "next")
    /\ (kres' # kres /\ kres'.kind = "key") => (res'.op = "key" /\ res'.key = kres'.key)

\* What had arrived on stdin when next() returned has been read when next()
\* is called again
Drained == (CallsNext /\ NothingSinceWake) => stdin.avail = <<>>

\* C26: the main loop alternates between next() and the handling of keys;
\* on every return of next() the bytes then waiting on stdin are all read
\* and decoded into keys for the consumer management before next() is called
\* again; a return with MEASUREMENT runs one tbl.get(), before the keys.
C26_MainLoop == [][LoopOrder]_vars /\ [][Drained]_vars

\* The order of the loop alone
C26_LoopOrderObserved == [][LoopOrder]_vars

--------------------------------------------------------------------------
\* Transactions on the line

\* The last step wrote a command
Wrote == res.op \in {"tick", "key"} /\ res.cmd # <<>>

\* The transaction of the last step began with its only write and has come
\* back: it raised, or it returned after reading the terminating OK line
Completed ==
    Wrote =>
        LET tr == res.tx.tr
        IN  /\ res.tx.kind # "none"
            /\ tr # <<>> /\ tr[1] = Call("write")
            /\ \A k \in 2..Len(tr) : tr[k] # Call("write")
            /\ res.tx.kind = "ok" =>
                  /\ Len(tr) >= 2
                  /\ res.tx.lines # <<>>
                  /\ res.tx.lines[Len(res.tx.lines)] = OK \o <<NL>>

\* The line and the board are touched only by a pass of tbl.get() or by a
\* key, one call at a time
OneAtATime ==
    (port' # port \/ board' # board \/ cmds' # cmds) =>
        /\ nops' = nops + 1
        /\ res'.op \in {"tick", "key"}
        /\ res'.cmd # <<>>

\* C27: whatever the order of measurement ticks and set commands of the
\* operator, a command is written only by a call that is itself run to its
\* end before the next begins: every transaction starts with its one write
\* and has returned a reply that ends with OK, or raised, when the step that
\* wrote it is over.
C27_OneInFlight == []Completed /\ [][OneAtATime]_vars

\* A tick that returns after a set command of the operator has returned
C27_Witness ==
    /\ res.op = "tick"
    /\ res.tx.kind = "ok"
    /\ \E k \in 1..Len(hist) : hist[k].e = "set"
    /\ Len(res.tx.tr) = 3

--------------------------------------------------------------------------
\* Calibration at start-up

Calibrating == cal.at \in {"write", "read", "sleep"}

\* RRR is written at most twice, the second time after a first round that
\* ended with OK, and twice when start-up returns; the port's timeout is 0
\* during the calibration and afterwards what it was before
TwiceAndRestored ==
    /\ cal.sent <= 2
    /\ cal.sent = 2 => (cal.ends # <<>> /\ cal.ends[1] = "ok")
    /\ cal.at = "done" => (cal.sent = 2 /\ cal.ends = <<"ok", "ok">>)
    /\ cal.at = "done" => (cal.timeout = cal.old /\ cal.timeout = ConfigTimeoutMs)
    /\ Calibrating => cal.timeout = 0
    /\ cal.at = "read" =>
          (Last(cal.buffer, 3) # OK \o <<NL>> /\ Last(cal.buffer, 6) # ERROR \o <<NL>>)

\* A round is left with a reply that ends with the OK line, and start-up
\* goes on; or with one that ends with the ERROR line, or after a second
\* without data, and start-up is aborted. A round that has had no data for a
\* second is not continued.
RoundEnds ==
    /\ (cal.at = "read" /\ cal'.at # "read") =>
          \/ cal'.at = "sleep" /\ Last(cal'.buffer, 3) = OK \o <<NL>>
          \/ cal'.at = "aborted" /\ Last(cal'.buffer, 6) = ERROR \o <<NL>>
          \/ /\ cal'.at = "aborted" /\ cal'.buffer = cal.buffer
             /\ cal.inbuf = <<>> /\ cal.waited >= ReadTimeoutMs
    /\ (cal.at = "read" /\ cal.inbuf = <<>> /\ cal.waited >= ReadTimeoutMs /\ cal' # cal) =>
          cal'.at = "aborted"

\* C30: start-up writes RRR twice, the second time only after the first
\* round ended with OK; a round ends when the accumulated reply ends with
\* "OK\n", or with "ERROR\n", which aborts start-up; a round in which nothing
\* arrives for 1000 ms fails; when start-up returns, the read timeout of the
\* port is what it was before the calibration.
C30_Calibration == []TwiceAndRestored /\ [][RoundEnds]_vars

\* Start-up returns after two rounds, the second of a board that sent dots
C30_Witness ==
    /\ cal.at = "done"
    /\ cal.sent = 2
    /\ cal.timeout = ConfigTimeoutMs
    /\ cal.ends = <<"ok", "ok">>
    /\ Last(cal.buffer, 3) = OK \o <<NL>>
    /\ \E k \in 1..Len(cal.buffer) : cal.buffer[k] = "."
    /\ cal.wire = <<>>

\* ------------------------------------------------------------ C31
\* Sets and queries on the four channels against the emulator, the line
\* prompt: the values written, and the number of calls in one behaviour
MaxBoardOps == 3

BoardValues == {0, 7, 999}

BoardEnv == [scen |-> Prompt, faults |-> {}, draws |-> {0}, ops |-> MaxBoardOps]

NextBoard ==
    \E d \in devs :
       \/ \E n \in 1..4, x \in BoardValues : PwmSet(d, n, x, BoardEnv)
       \/ \E n \in 1..4 : PwmGet(d, n, BoardEnv)

SpecBoard == Init /\ [][NextBoard]_vars

\* The sets made so far on channel n, oldest first
SetsOn(n) ==
    SelectSeq(hist, LAMBDA h : h.e = "set" /\ \E x \in BoardValues : h.s = PwmSetCmd(n, x))

\* What channel n holds by the calls made: the value of the last set on it,
\* or the emulator's initial value
Expected(n) ==
    IF SetsOn(n) = <<>> THEN InitialPwm[n]
    ELSE CHOOSE x \in BoardValues : SetsOn(n)[Len(SetsOn(n))].s = PwmSetCmd(n, x)

\* C31: against the emulator pwm(n, x) returns x, and pwm(n) returns the value
\* of the last set on channel n whatever was set on the other channels since
C31_RoundTrip ==
    /\ res.op = "pwmset" => res.kind = "ok" /\ res.val = res.x
    /\ res.op = "pwmget" => res.kind = "ok" /\ res.val = IntV(Expected(res.n))

\* A query of a channel after a set on it and a later set on another channel
C31_Witness ==
    /\ res.op = "pwmget"
    /\ res.val = IntV(999)
    /\ Len(hist) = 2
    /\ hist[1].s = PwmSetCmd(res.n, 999)
    /\ SetsOn(res.n) = <<hist[1]>>

--------------------------------------------------------------------------
\* The shape of the tokens

\* __next__ returned a token
Emitted == kres.op = "next" /\ kres.kind = "key"

\* C32: every token __next__ returns for a chunk that is an entry of
\* translate has two or more characters, and every other token it returns
\* has exactly one character.
C32_TokenShape ==
    Emitted =>
        IF kres.chunk.b \in DOMAIN translate
        THEN TokenLen(kres.key) >= 2
        ELSE TokenLen(kres.key) = 1

\* What does hold: the names of the table have two or more characters, and
\* a token returned while stdin is not at end of file for a chunk that is no
\* entry has one character
C32_ShapeWhileOpen ==
    /\ \A b \in DOMAIN translate : TokenLen(translate[b]) >= 2
    /\ (Emitted /\ ~kres.src.eof) =>
          IF kres.chunk.b \in DOMAIN translate
          THEN TokenLen(kres.key) >= 2
          ELSE TokenLen(kres.key) = 1

--------------------------------------------------------------------------
\* The events of one call of next()

\* The flags of the sources whose next-fire-time was the earliest when the
\* last call of next() began: the sources the call slept for
SleptFor == {f \in EventFlags : Before(f).NEXTEVENT = Earliest}

\* C33: every call of next() returns at least one event, and the source with
\* the earliest next-fire-time, for which the call slept, is among the events
\* it returns.
C33_NextNonEmpty ==
    NextReturned =>
        /\ sch.events # 0
        /\ \A f \in SleptFor : HasFlag(sch.events, f)

--------------------------------------------------------------------------
\* Replies and the transactions they answer

\* The bytes the last transaction took from the line, in the order read
RECURSIVE Flat(_)
Flat(lines) == IF lines = <<>> THEN <<>> ELSE Head(lines) \o Flat(Tail(lines))

\* C34: every byte a transaction reads is a byte of the reply the board sent
\* to that transaction's command, whatever the outcome of the transactions
\* before it: what it reads is the beginning of its own reply.
C34_ReplyCorrelation ==
    (IsTransaction /\ res.c.w = "written") =>
        /\ Len(Flat(res.tx.lines)) <= Len(res.reply)
        /\ Flat(res.tx.lines) = Take(res.reply, Len(Flat(res.tx.lines)))

\* What does hold: on a line on which nothing was left in flight or buffered
\* by the transactions before, a transaction reads the beginning of its reply
C34_CorrelatedOnCleanLine ==
    (IsTransaction /\ res.c.w = "written" /\ res.pre = [inbuf |-> <<>>, wire |-> <<>>]) =>
        /\ Len(Flat(res.tx.lines)) <= Len(res.reply)
        /\ Flat(res.tx.lines) = Take(res.reply, Len(Flat(res.tx.lines)))

--------------------------------------------------------------------------
\* The command log and the calls that leave it alone

\* The four calls of the instance on a line with every fault of EngineEnv
NextFrame ==
    \E d \in devs :
       \/ Version(d, EngineEnv)
       \/ Meas(d, 0, EngineEnv)
       \/ PwmGet(d, 4, EngineEnv)
       \/ PwmSet(d, 1, 7, EngineEnv)

SpecFrame == Init /\ [][NextFrame]_vars

\* The effect of one call on the log
FrameStep ==
    /\ res'.op \in {"version", "meas", "pwmget"} => cmds' = cmds
    /\ (res'.op = "pwmset" /\ res'.tx.kind # "ok") => cmds' = cmds
    /\ (res'.op = "pwmset" /\ res'.tx.kind = "ok") => cmds' = Append(cmds, res'.cmd)

\* C35: a set whose transaction raises, whatever it raises, leaves the log as
\* it was, a set whose transaction returns appends its command, and version(),
\* meas() and the query pwm(n) leave the log as it was whatever their outcome.
C35_OnlyAcceptedLogged == [][FrameStep]_vars

\* A set that failed with ProtocolViolation after one that was accepted: the
\* log holds the accepted one only
C35_Witness ==
    /\ res.op = "pwmset"
    /\ res.tx.kind = "ProtocolViolation"
    /\ nops = 2
    /\ cmds = <<PwmSetCmd(1, 7)>>

--------------------------------------------------------------------------
\* The commands column of the table

\* The commands column of every row added so far holds the set commands that
\* returned a reply since the row before it, and no other
RowsHoldSets ==
    \A i \in 1..Len(hist) : hist[i].e = "drain" =>
        hist[i].s = Delimited(SetsIn({MainDev}, LastDrain({MainDev}, i) + 1, i - 1))

\* The last tick added the last row of the table and of the file, with the
\* commands since the row before it
RowAdded ==
    /\ hist # <<>> /\ hist[Len(hist)].e = "drain"
    /\ data[TableRows].time = ticks
    /\ data[TableRows].cmds = hist[Len(hist)].s
    /\ csv # <<>> /\ csv[Len(csv)] = data[TableRows]

\* Every set command that returned a reply is in the row of a later tick
InSomeRow ==
    \A i \in 1..Len(hist) : hist[i].e = "set" =>
        \E j \in (i + 1)..Len(hist) : hist[j].e = "drain"

\* C36: after every tick, also one whose query failed, the commands column of
\* the row it added holds the set commands accepted since the tick before:
\* every accepted set command is in exactly one row, that of the first tick
\* after it.
C36_AuditTrail ==
    /\ RowsHoldSets
    /\ (res.op = "tick" /\ pc = "running") => RowAdded
    /\ res.op = "tick" => InSomeRow

\* What does hold: every tick that returns adds such a row, the sentinel row
\* of a query that failed with a ValueError included; a tick whose query fails
\* otherwise adds none and ends the program with the commands still in the log
C36_AuditObserved ==
    /\ RowsHoldSets
    /\ (res.op = "tick" /\ pc = "running") => RowAdded
    /\ (res.op = "tick" /\ res.tx.kind # "ok" /\ IsValueError(res.tx.kind)) =>
          (pc = "running" /\ data[TableRows].vals = ErrVals)
    /\ (res.op = "tick" /\ pc = "exited") =>
          cmds = SetsIn({MainDev}, LastDrain({MainDev}, Len(hist) + 1) + 1, Len(hist))

--------------------------------------------------------------------------
\* The active consumer of the management and the consumers' own state

\* C37: after every dispatch active_consumer is consumer c exactly if c's own
\* active is True, for every registered consumer c, and it is None exactly if
\* no registered consumer's active is True.
C37_RouterAgrees ==
    Dispatched =>
        /\ \A i \in Registered : (router = i) <=> widgets[i].active
        /\ (router = 0) <=> (\A i \in Registered : ~widgets[i].active)

\* The second consumer registered is being edited after the trigger of the
\* first was pressed and given up
C37_Witness ==
    /\ Dispatched
    /\ res.key = "7"
    /\ res.act = 2
    /\ router = 2
    /\ widgets[2].active /\ widgets[2].buffer = <<"7">>
    /\ consumers = <<1, 2>>
    /\ nops = 4

--------------------------------------------------------------------------
\* The edit buffers between sessions

\* Number of keys in one behaviour of the three kinds of consumer
MaxBufKeys == 5

\* The example consumer, numbered after the widgets of main.py
ExampleConsumer == NumConsumers + 1

\* The operator at a PWM widget, the interval widget and an InputConsumer;
\* the board accepts a set, refuses it, or the write times out
BufEnv ==
    [scen   |-> Prompt \cup {Scenario("timeout", "none", "none", "none", "none")},
     faults |-> {ERROR \o <<NL>>}, draws |-> {150}, ops |-> MaxBufKeys,
     keys   |-> {"F1", "F9", "F4", "7", "a", "ENTER", "ESC"}]

\* One consumer management with a consumer of each class
InitBuffers ==
    /\ devs = {1}
    /\ InitPort
    /\ data = [i \in 1..TableRows |-> NoRow]
    /\ csv = <<>>
    /\ widgets = [i \in 1..ExampleConsumer |->
                    [active |-> FALSE, buffer |-> <<>>,
                     value |-> IF i <= 4 THEN InitialPwm[i]
                               ELSE IF i = 5 THEN ConfigInterval ELSE <<>>]]
    /\ router = 0
    /\ cal = [NoCal EXCEPT !.at = "done", !.n = 2, !.sent = 2]
    /\ pc = "running"
    /\ exitmsg = "Program terminated normally."
    /\ ticks = 0
    /\ consumers = add(add(add(<<>>, 1), 5), ExampleConsumer)
    /\ InitScheduler(ConfigHeartbeat, ConfigInterval * 100, ConfigTimewindow, 0)
    /\ InitKeyboard

NextBuffers == KeyInput(BufEnv)

SpecBuffers == InitBuffers /\ [][NextBuffers]_vars

\* C38: a consumer that is not active, whether PWM widget, interval widget or
\* InputConsumer, has an empty buffer: what was typed in a session that was
\* cancelled or completed is gone when the next begins, also when the set
\* command of ENTER failed.
C38_InactiveBufferEmpty ==
    \A i \in DOMAIN widgets : ~widgets[i].active => widgets[i].buffer = <<>>

\* ENTER on a PWM widget whose set command the board refused: the session is
\* over, the buffer empty and the value the old one
C38_Witness ==
    /\ Dispatched
    /\ res.key = "ENTER"
    /\ res.act = 1
    /\ res.tx.kind = "DeviceError"
    /\ ~widgets[1].active /\ widgets[1].buffer = <<>>
    /\ widgets[1].value = InitialPwm[1]

\* An InputConsumer took a letter and a digit and was cancelled
C38_ExampleCancelled ==
    /\ Dispatched
    /\ res.key = "ESC"
    /\ res.act = ExampleConsumer
    /\ nops = 4
    /\ widgets[ExampleConsumer] = [active |-> FALSE, buffer |-> <<>>, value |-> <<>>]

--------------------------------------------------------------------------
\* The measurement interval

\* check_interval(value) of main.py, the validator of the option -i
check_interval(value) ==
    IF value < 1 \/ value > 999 THEN [ok |-> FALSE, val |-> 0]
    ELSE [ok |-> TRUE, val |-> value]

\* Values given to -i on the command line
CommandLine == {0, 1, 10, 999, 1000}

\* Number of keys in one behaviour at the interval widget
MaxIntervalKeys == 4

\* The operator at the interval widget
IntervalEnv ==
    [scen |-> Prompt, faults |-> {}, draws |-> {150}, ops |-> MaxIntervalKeys,
     keys |-> {"F9", "0", "7", "9", "ENTER", "ESC"}]

\* main.py started with an interval that check_interval accepts
InitInterval ==
    /\ devs = {1}
    /\ InitPort
    /\ data = [i \in 1..TableRows |-> NoRow]
    /\ csv = <<>>
    /\ router = 0
    /\ cal = [NoCal EXCEPT !.at = "done", !.n = 2, !.sent = 2]
    /\ pc = "running"
    /\ exitmsg = "Program terminated normally."
    /\ ticks = 0
    /\ consumers = add(add(add(add(add(<<>>, 1), 2), 3), 4), 5)
    /\ InitKeyboard
    /\ \E a \in CommandLine :
          /\ check_interval(a).ok
          /\ widgets = [i \in 1..NumConsumers |->
                          [active |-> FALSE, buffer |-> <<>>,
                           value |-> IF i <= 4 THEN InitialPwm[i] ELSE check_interval(a).val]]
          /\ InitScheduler(ConfigHeartbeat, check_interval(a).val * 100, ConfigTimewindow, 0)

NextInterval == KeyInput(IntervalEnv)

SpecInterval == InitInterval /\ [][NextInterval]_vars

\* C39: the interval of the measurement source is a whole number of seconds
\* from 1 to 999, as given on the command line or as typed at the interval
\* widget; it is never 0.
C39_IntervalInRange == \E s \in 1..999 : Measurement.INTERVAL = s * 100

\* What does hold: the interval is a whole number of seconds from 0 to 999,
\* the number last entered at the interval widget
C39_IntervalObserved ==
    /\ \E s \in 0..999 : Measurement.INTERVAL = s * 100
    /\ Dispatched => Measurement.INTERVAL = widgets[5].value * 100

--------------------------------------------------------------------------
\* Key presses and the tokens decoded from them

\* What the operator's keys put on stdin: byte sequences of translate and
\* printable characters
TypedKeys ==
    { SS3("P"), CSI(<<"1", "1", "~">>), CSI(<<"A">>), <<NL>>, <<EscByte>>, <<DelByte>>,
      <<"a">>, <<"7">> }

\* A key is pressed: its bytes are appended to what waits on stdin. The
\* record of the press notes whether the decoder held no bytes and none
\* waited, so that the next read returns this press alone.
Type(bs) ==
    /\ stdin.typed < MaxPresses
    /\ stdin' = [stdin EXCEPT !.avail = @ \o bs, !.typed = @ + 1]
    /\ hist' = Append(hist, [e |-> "press", s |-> bs,
                             d |-> IF stdin.avail = <<>> /\ chunk.b = <<>> THEN 1 ELSE 0])
    /\ UNCHANGED <<chunk, kpc, kres>>
    /\ UNCHANGED <<devs, port, board, cmds, res, nops, widgetVars, schedVars>>

\* __next__ in the for loop, with a record of the token it returns
Token ==
    /\ Iterate
    /\ hist' = IF kres'.kind = "key"
               THEN Append(hist, [e |-> "token", s |-> <<kres'.key>>, d |-> 0])
               ELSE hist
    /\ UNCHANGED <<devs, port, board, cmds, res, nops, widgetVars, schedVars>>

NextTyped ==
    \/ \E bs \in TypedKeys : Type(bs)
    \/ KeyIter
    \/ Token

SpecTyped == Init /\ [][NextTyped]_vars

\* The key presses made and the tokens returned so far, in order
Presses == SelectSeq(hist, LAMBDA h : h.e = "press")

Tokens == SelectSeq(hist, LAMBDA h : h.e = "token")

\* The token of a key press: the entry of translate, or the character
TokenOf(bs) == IF bs \in DOMAIN translate THEN translate[bs] ELSE bs[1]

\* The tokens returned are those of the first key presses, in order, and of
\* all key presses once the for loop has ended with nothing left on stdin
InOrderAndComplete ==
    /\ Len(Tokens) <= Len(Presses)
    /\ \A k \in 1..Len(Tokens) : Tokens[k].s = <<TokenOf(Presses[k].s)>>
    /\ (kpc = "idle" /\ stdin.avail = <<>>) => Len(Tokens) = Len(Presses)

\* C40: whatever keys of the table and printable characters are pressed and
\* however their bytes fall into the reads of the decoder, the tokens returned
\* over the runs of the for loop are the tokens of the key presses, one for
\* each, in the order typed.
C40_NoKeyLost == InOrderAndComplete

\* What does hold: the same when every read of the decoder returns the bytes
\* of one key press
C40_OnePressPerRead ==
    (\A k \in 1..Len(Presses) : Presses[k].d = 1) => InOrderAndComplete

====
